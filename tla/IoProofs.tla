------------------------------ MODULE IoProofs ------------------------------
(***************************************************************************)
(* Proofs about xcoro's io_context for any coroutines, cancellation        *)
(* sources, timers and delays: a wait is resumed once and never forgotten, *)
(* the loop does not sleep through work, and sleep_for() keeps its         *)
(* deadline.                                                               *)
(***************************************************************************)
EXTENDS IoContext, DataLemmas

(* What resume() will be called on, in this order.                         *)
Queue == batch \o ready

(* The loop has a thread from run() to the end of stop(); its local        *)
(* variables hold something only where they are in use.                    *)
LoopInv ==
  /\ joinable <=> lpc # "off"
  /\ opc = "join" => joinable
  /\ batch # <<>> => lpc \in {"resume", "running", "register"}
  /\ due # {} => lpc = "expire"

(* A timer that anybody refers to is its coroutine's, and it is what that  *)
(* coroutine waits for unless it has been completed.                       *)
TimerInv ==
  /\ \A s \in heap \cup due :
       handle[s] \in Coros /\ (~completed[s] => timer[handle[s]] = s)
  /\ \A c \in Coros :
       /\ timer[c] # NoTimer => handle[timer[c]] = c /\ place[c] = "waiting"
       /\ callback[c] # NoTimer => callback[c] = timer[c]
       /\ kcb[c] # NoTimer =>
            handle[kcb[c]] = c /\ (~completed[kcb[c]] => timer[c] = kcb[c])
       /\ pushing[c] # NoTimer =>
            handle[pushing[c]] = c /\ (~completed[pushing[c]] => timer[c] = pushing[c])

(* The timer of a sleep that has not come to its registration is known to  *)
(* nobody else.                                                            *)
Unshared(c) ==
  /\ timer[c] # NoTimer /\ ~completed[timer[c]]
  /\ timer[c] \notin heap \cup due
  /\ callback[c] = NoTimer /\ kcb[c] # timer[c]

(* What the threads inside await_suspend and the cancelling threads hold.  *)
ThreadInv ==
  /\ \A c \in Coros :
       /\ thread[c] \in {"register", "inline_wake", "push"} <=> pushing[c] # NoTimer
       /\ thread[c] = "register" => timer[c] = pushing[c] /\ Unshared(c)
       /\ thread[c] = "inline_wake" => completed[pushing[c]]
       /\ kpc[c] \in {"mark", "store", "wake"} => kcb[c] # NoTimer
       /\ kpc[c] = "store" => timer[c] = kcb[c] /\ completed[kcb[c]]
  /\ lpc = "register" =>
       current \in Coros /\ Unshared(current) /\ pushing[current] # timer[current]

(* A coroutine is queued only after its timer was completed, and then by   *)
(* the one who completed it.                                               *)
QueueInv ==
  /\ IsInjective(Queue)
  /\ \A c \in ToSet(Queue) :
       /\ place[c] = "waiting" /\ kpc[c] # "store"
       /\ timer[c] # NoTimer => completed[timer[c]]

(* Conversely, who waits is queued once its timer is completed, and until  *)
(* then the timer is in the heap or on its way there.                      *)
Held(c) ==
  IF timer[c] # NoTimer /\ ~completed[timer[c]]
    THEN \/ timer[c] \in heap \cup due
         \/ thread[c] \in {"register", "push"} /\ pushing[c] = timer[c]
         \/ lpc = "register" /\ current = c
    ELSE c \in ToSet(Queue) \/ kpc[c] = "store"

HeldInv == \A c \in Coros : place[c] = "waiting" => Held(c)

(* Nothing reaches the ready queue, stop() sets nothing and no timer is    *)
(* pushed without a write to the eventfd that the loop has not read, or    *)
(* will not read before it looks at them.                                  *)
WakeInv ==
  signalled \/ WakePending \/
    /\ ready # <<>> => lpc \in {"collect", "expire", "drain"}
    /\ lpc = "poll" => ~stopped /\ \A s \in heap : wakeAt <= deadline[s]

(* Why a queued sleeper may be resumed.                                    *)
DeadlineInv ==
  /\ \A s \in due : deadline[s] <= now
  /\ \A c \in Coros : kpc[c] # "idle" => requested[c]
  /\ \A c \in Coros : timer[c] # NoTimer /\ cancelled[timer[c]] => requested[c]
  /\ \A c \in ToSet(Queue) :
       timer[c] # NoTimer /\ ~cancelled[timer[c]] => deadline[timer[c]] <= now

IoInductive ==
  /\ TypeOK /\ LoopInv /\ TimerInv /\ ThreadInv /\ QueueInv /\ HeldInv
  /\ WakeInv /\ DeadlineInv

-----------------------------------------------------------------------------
(* The second half of ExpireTimer, for one timer.                          *)
ExpireOne(s) ==
  /\ lpc = "expire"
  /\ IF completed[s] THEN UNCHANGED ready ELSE EnqueueReady(handle[s])
  /\ completed' = [completed EXCEPT ![s] = TRUE]
  /\ due' = due \ {s}
  /\ UNCHANGED <<lpc, signalled, ownerVars, now, last, wakeAt, batch, current, place,
                 threadVars, timer, heap, handle, deadline, cancelled, tokenVars>>

(* enqueue_ready() adds one coroutine to the end of the queue.             *)
LEMMA QueuePush ==
  ASSUME batch \in Seq(Coros), ready \in Seq(Coros), NEW c \in Coros,
         batch' = batch, ready' = Append(ready, c)
  PROVE  /\ ToSet(Queue') = ToSet(Queue) \cup {c}
         /\ IsInjective(Queue) /\ c \notin ToSet(Queue) => IsInjective(Queue')
<1>1. Queue' = Append(Queue, c) /\ Queue \in Seq(Coros)
  BY DEF Queue
<1> HIDE DEF Queue
<1>2. ToSet(Append(Queue, c)) = ToSet(Queue) \cup {c}
  BY <1>1, ToSetAppend
<1>3. ASSUME IsInjective(Queue), c \notin ToSet(Queue) PROVE IsInjective(Append(Queue, c))
  BY <1>1, <1>3, InjectiveAppend
<1> QED BY <1>1, <1>2, <1>3

(* resume() takes the first one.                                           *)
LEMMA QueuePop ==
  ASSUME batch \in Seq(Coros), ready \in Seq(Coros), batch # <<>>,
         batch' = Tail(batch), ready' = ready
  PROVE  /\ Head(batch) \in Coros /\ Tail(batch) \in Seq(Coros)
         /\ ToSet(Queue) = ToSet(Queue') \cup {Head(batch)}
         /\ IsInjective(Queue) => IsInjective(Queue') /\ Head(batch) \notin ToSet(Queue')
<1>1. /\ Queue' = Tail(Queue) /\ Queue \in Seq(Coros) /\ Queue # <<>>
      /\ Head(Queue) = Head(batch)
  BY DEF Queue
<1>2. Head(batch) \in Coros /\ Tail(batch) \in Seq(Coros)
  OBVIOUS
<1> HIDE DEF Queue
<1>3. ToSet(Queue) = ToSet(Tail(Queue)) \cup {Head(Queue)}
  BY <1>1, ToSetTail
<1>4. ASSUME IsInjective(Queue)
      PROVE  IsInjective(Tail(Queue)) /\ Head(Queue) \notin ToSet(Tail(Queue))
  BY <1>1, <1>4, InjectiveTail
<1> QED BY <1>1, <1>3, <1>4

(* make_shared() returns an address that nothing refers to.                *)
LEMMA NewAddressIsFree ==
  ASSUME FreeTimers # {}
  PROVE  /\ NewAddress \in Timers
         /\ NewAddress \notin heap /\ NewAddress \notin due
         /\ \A c \in Coros : /\ timer[c] # NewAddress /\ pushing[c] # NewAddress
                             /\ callback[c] # NewAddress /\ kcb[c] # NewAddress
  BY DEF NewAddress, FreeTimers, UsedTimers

(* The timeout of epoll_wait() is that of the earliest timer.              *)
LEMMA EarliestDeadline ==
  ASSUME deadline \in [Timers -> 0..Never], heap \subseteq Timers
  PROVE  /\ Min({deadline[s] : s \in heap} \cup {Never}) \in 0..Never
         /\ \A t \in heap : Min({deadline[s] : s \in heap} \cup {Never}) <= deadline[t]
<1> DEFINE D == {deadline[s] : s \in heap} \cup {Never}
<1>1. D \in SUBSET (0..Never) /\ D # {} /\ Never \in Nat
  BY IoAssumption DEF Never
<1>2. \A s \in heap : deadline[s] \in D
  OBVIOUS
<1>3. D \in SUBSET Nat
  BY <1>1
<1> HIDE DEF D
<1>4. Min(D) \in D /\ \A x \in D : Min(D) <= x
  BY <1>1, MinIsLeast
<1>5. Min(D) \in 0..Never /\ \A t \in heap : Min(D) <= deadline[t]
  BY <1>1, <1>2, <1>4
<1> QED BY <1>5 DEF D

-----------------------------------------------------------------------------
(* The invariant is inductive.                                             *)
LEMMA InvariantStep ==
  ASSUME IoInductive, [Next]_vars
  PROVE  IoInductive'
<1> USE DEF IoInductive, TypeOK, Move, ThreadGoto, LoopGoto, EnqueueReady, RunsOnLoop,
            ownerVars, loopVars, threadVars, timerVars, tokenVars
<1>0. ToSet(Queue) \subseteq Coros
  BY ToSetConcat, ToSetType DEF Queue
<1>1. ASSUME LoopTest, stopped
      PROVE  IoInductive'
  <2>0. /\ lpc = "test" /\ stopped /\ last' = TRUE /\ lpc' = "collect"
        /\ UNCHANGED <<ready, signalled, stopped, joinable, opc, runs,
             now, wakeAt, due, batch, current, place, thread, pushing,
             timer, heap, handle, deadline, completed, cancelled,
             requested, callback, kpc, kcb>>
    BY <1>1 DEF LoopTest
  <2>1. Queue' = Queue
    BY <2>0 DEF Queue
  <2>2. TypeOK'
    BY <2>0 DEF LoopPoints
  <2>3. LoopInv'
    BY <2>0 DEF LoopInv
  <2>4. TimerInv' /\ QueueInv' /\ DeadlineInv'
    BY <2>0 DEF TimerInv, QueueInv, Queue, DeadlineInv
  <2>5. ThreadInv'
    BY <2>0 DEF ThreadInv, Unshared
  <2>7. HeldInv'
    BY <2>1, <2>0 DEF HeldInv, Held
  <2>8. WakeInv'
    BY <2>0 DEF WakeInv
  <2> QED BY <2>2, <2>3, <2>4, <2>5, <2>7, <2>8
<1>2. ASSUME LoopTest, ~stopped
      PROVE  IoInductive'
  <2>0. /\ lpc = "test" /\ ~stopped /\ lpc' = "poll" /\ wakeAt' \in 0..Never
        /\ \A s \in heap : wakeAt' <= deadline[s]
        /\ UNCHANGED <<ready, signalled, stopped, joinable, opc, runs,
             now, last, due, batch, current, place, thread, pushing,
             timer, heap, handle, deadline, completed, cancelled,
             requested, callback, kpc, kcb>>
    <3>1. /\ lpc = "test" /\ lpc' = "poll"
          /\ wakeAt' = Min({deadline[s] : s \in heap} \cup {Never})
          /\ UNCHANGED <<ready, signalled, stopped, joinable, opc,
               runs, now, last, due, batch, current, place, thread,
               pushing, timer, heap, handle, deadline, completed,
               cancelled, requested, callback, kpc, kcb>>
      BY <1>2 DEF LoopTest
    <3> QED BY <1>2, <3>1, EarliestDeadline
  <2>1. Queue' = Queue
    BY <2>0 DEF Queue
  <2>2. TypeOK'
    BY <2>0 DEF LoopPoints
  <2>3. LoopInv'
    BY <2>0 DEF LoopInv
  <2>4. TimerInv' /\ QueueInv' /\ DeadlineInv'
    BY <2>0 DEF TimerInv, QueueInv, Queue, DeadlineInv
  <2>5. ThreadInv'
    BY <2>0 DEF ThreadInv, Unshared
  <2>7. HeldInv'
    BY <2>1, <2>0 DEF HeldInv, Held
  <2>8. WakeInv'
    BY <2>0 DEF WakeInv, WakePending
  <2> QED BY <2>2, <2>3, <2>4, <2>5, <2>7, <2>8
<1>3. ASSUME PollOnce \/ PollEarly
      PROVE  IoInductive'
  <2>0. /\ lpc = "poll" /\ lpc' = "collect" /\ signalled' = FALSE
        /\ UNCHANGED <<ready, stopped, joinable, opc, runs, now, last,
             wakeAt, due, batch, current, place, thread, pushing,
             timer, heap, handle, deadline, completed, cancelled,
             requested, callback, kpc, kcb>>
    BY <1>3 DEF PollOnce, PollEarly, Wake
  <2>1. Queue' = Queue
    BY <2>0 DEF Queue
  <2>2. TypeOK'
    BY <2>0 DEF LoopPoints, Places, ThreadPoints, CancelPoints, Never
  <2>3. LoopInv'
    BY <2>0 DEF LoopInv
  <2>4. TimerInv' /\ QueueInv' /\ DeadlineInv'
    BY <2>0 DEF TimerInv, QueueInv, Queue, DeadlineInv
  <2>5. ThreadInv'
    BY <2>0 DEF ThreadInv, Unshared
  <2>7. HeldInv'
    BY <2>1, <2>0 DEF HeldInv, Held
  <2>8. WakeInv'
    BY <2>0 DEF WakeInv
  <2> QED BY <2>2, <2>3, <2>4, <2>5, <2>7, <2>8
<1>4. ASSUME CollectDue
      PROVE  IoInductive'
  <2>1. Queue' = Queue
    BY <1>4 DEF CollectDue, Queue
  <2>2. TypeOK'
    BY <1>4 DEF CollectDue, LoopPoints
  <2>3. LoopInv'
    BY <1>4 DEF CollectDue, LoopInv
  <2>4. TimerInv'
    BY <1>4 DEF CollectDue, TimerInv
  <2>5. ThreadInv'
    BY <1>4 DEF CollectDue, ThreadInv, Unshared
  <2>6. QueueInv'
    BY <1>4, <2>1 DEF CollectDue, QueueInv
  <2>7. HeldInv'
    BY <1>4, <2>1 DEF CollectDue, HeldInv, Held, LoopInv
  <2>8. WakeInv'
    BY <1>4 DEF CollectDue, WakeInv
  <2>9. DeadlineInv'
    BY <1>4, <2>1 DEF CollectDue, DeadlineInv
  <2> QED BY <2>2, <2>3, <2>4, <2>5, <2>6, <2>7, <2>8, <2>9
<1>5. ASSUME ExpireTimer, due = {}
      PROVE  IoInductive'
  <2>1. Queue' = Queue
    BY <1>5 DEF ExpireTimer, Queue
  <2>2. TypeOK'
    BY <1>5 DEF ExpireTimer, LoopPoints
  <2>3. LoopInv'
    BY <1>5 DEF ExpireTimer, LoopInv
  <2>4. TimerInv'
    BY <1>5 DEF ExpireTimer, TimerInv
  <2>5. ThreadInv'
    BY <1>5 DEF ExpireTimer, ThreadInv, Unshared
  <2>6. QueueInv'
    BY <1>5, <2>1 DEF ExpireTimer, QueueInv
  <2>7. HeldInv'
    BY <1>5, <2>1 DEF ExpireTimer, HeldInv, Held
  <2>8. WakeInv'
    BY <1>5 DEF ExpireTimer, WakeInv
  <2>9. DeadlineInv'
    BY <1>5, <2>1 DEF ExpireTimer, DeadlineInv
  <2> QED BY <2>2, <2>3, <2>4, <2>5, <2>6, <2>7, <2>8, <2>9
<1>6. ASSUME NEW s \in due, ExpireOne(s), completed[s]
      PROVE  IoInductive'
  <2>1. Queue' = Queue
    BY <1>6 DEF ExpireOne, Queue
  <2>2. TypeOK'
    BY <1>6 DEF ExpireOne
  <2>3. LoopInv'
    BY <1>6 DEF ExpireOne, LoopInv
  <2>4. TimerInv'
    BY <1>6 DEF ExpireOne, TimerInv
  <2>5. ThreadInv'
    BY <1>6 DEF ExpireOne, ThreadInv, Unshared
  <2>6. QueueInv'
    BY <1>6, <2>1 DEF ExpireOne, QueueInv
  <2>7. HeldInv'
    BY <1>6, <2>1 DEF ExpireOne, HeldInv, Held
  <2>8. WakeInv'
    BY <1>6 DEF ExpireOne, WakeInv
  <2>9. DeadlineInv'
    BY <1>6, <2>1 DEF ExpireOne, DeadlineInv
  <2> QED BY <2>2, <2>3, <2>4, <2>5, <2>6, <2>7, <2>8, <2>9
<1>7. ASSUME NEW s \in due, ExpireOne(s), ~completed[s]
      PROVE  IoInductive'
  <2>0. /\ lpc = "expire" /\ s \in Timers /\ handle[s] \in Coros /\ timer[handle[s]] = s
        /\ ready' = Append(ready, handle[s])
        /\ completed' = [completed EXCEPT ![s] = TRUE]
        /\ due' = due \ {s}
        /\ UNCHANGED <<signalled, stopped, joinable, opc, runs, now,
             lpc, last, wakeAt, batch, current, place, thread,
             pushing, timer, heap, handle, deadline, cancelled,
             requested, callback, kpc, kcb>>
    BY <1>7 DEF ExpireOne, TimerInv
  <2>1. /\ ToSet(Queue') = ToSet(Queue) \cup {handle[s]} /\ IsInjective(Queue')
        /\ handle[s] \notin ToSet(Queue)
    <3>1. handle[s] \notin ToSet(Queue)
      <4>1. timer[handle[s]] # NoTimer /\ ~completed[timer[handle[s]]]
        BY <1>7, <2>0, IoAssumption
      <4> QED BY <4>1 DEF QueueInv
    <3>2. batch \in Seq(Coros) /\ ready \in Seq(Coros) /\ batch' = batch
      BY <2>0
    <3>3. /\ ToSet(Queue') = ToSet(Queue) \cup {handle[s]}
          /\ IsInjective(Queue) /\ handle[s] \notin ToSet(Queue) => IsInjective(Queue')
      BY <2>0, <3>2, QueuePush
    <3> QED BY <3>1, <3>3 DEF QueueInv
  <2>2. TypeOK'
    BY <2>0
  <2>3. LoopInv'
    BY <2>0 DEF LoopInv
  <2>4. TimerInv'
    BY <2>0 DEF TimerInv
  <2>5. ThreadInv'
    BY <2>0 DEF ThreadInv, Unshared
  <2>6. QueueInv'
    BY <1>7, IoAssumption, <2>1, <2>0 DEF QueueInv, TimerInv, ThreadInv
  <2>7. HeldInv'
    BY <2>1, <2>0 DEF HeldInv, Held, TimerInv
  <2>8. WakeInv'
    BY <2>0 DEF WakeInv
  <2>9. DeadlineInv'
    BY <2>1, <2>0 DEF DeadlineInv
  <2> QED BY <2>2, <2>3, <2>4, <2>5, <2>6, <2>7, <2>8, <2>9
<1>8. ASSUME DrainReady
      PROVE  IoInductive'
  <2>1. Queue' = Queue
    BY <1>8 DEF DrainReady, Queue, LoopInv
  <2>2. TypeOK'
    BY <1>8 DEF DrainReady, LoopPoints
  <2>3. LoopInv'
    BY <1>8 DEF DrainReady, LoopInv
  <2>4. TimerInv'
    BY <1>8 DEF DrainReady, TimerInv
  <2>5. ThreadInv'
    BY <1>8 DEF DrainReady, ThreadInv, Unshared
  <2>6. QueueInv'
    BY <1>8, <2>1 DEF DrainReady, QueueInv
  <2>7. HeldInv'
    BY <1>8, <2>1 DEF DrainReady, HeldInv, Held
  <2>8. WakeInv'
    BY <1>8 DEF DrainReady, WakeInv
  <2>9. DeadlineInv'
    BY <1>8, <2>1 DEF DrainReady, DeadlineInv
  <2> QED BY <2>2, <2>3, <2>4, <2>5, <2>6, <2>7, <2>8, <2>9
<1>9. ASSUME ResumeNext
      PROVE  IoInductive'
  <2>0. /\ lpc = "resume" /\ batch # <<>> /\ Head(batch) \in Coros
        /\ current' = Head(batch) /\ batch' = Tail(batch) /\ lpc' = "running"
        /\ place' = [place EXCEPT ![Head(batch)] = "running"]
        /\ timer' = [timer EXCEPT ![Head(batch)] = NoTimer]
        /\ callback' = [callback EXCEPT ![Head(batch)] = NoTimer]
        /\ completed' \in [Timers -> BOOLEAN]
        /\ \A s \in Timers : completed'[s] <=> s = timer[Head(batch)] \/ completed[s]
        /\ UNCHANGED <<ready, signalled, stopped, joinable, opc, runs,
             now, last, wakeAt, due, thread, pushing, heap, handle,
             deadline, cancelled, requested, kpc, kcb>>
    <3>1. /\ lpc = "resume" /\ batch # <<>>
          /\ current' = Head(batch) /\ batch' = Tail(batch) /\ lpc' = "running"
          /\ place' = [place EXCEPT ![Head(batch)] = "running"]
          /\ timer' = [timer EXCEPT ![Head(batch)] = NoTimer]
          /\ callback' = [callback EXCEPT ![Head(batch)] = NoTimer]
          /\ UNCHANGED <<ready, signalled, stopped, joinable, opc,
               runs, now, last, wakeAt, due, thread, pushing, heap,
               handle, deadline, cancelled, requested, kpc, kcb>>
      BY <1>9 DEF ResumeNext
    <3>2. completed' = [s \in Timers |-> s = timer[Head(batch)] \/ completed[s]]
      BY <1>9 DEF ResumeNext
    <3>3. /\ completed' \in [Timers -> BOOLEAN]
          /\ \A s \in Timers : completed'[s] <=> s = timer[Head(batch)] \/ completed[s]
      BY <3>2, Zenon
    <3>4. Head(batch) \in Coros
      BY <3>1
    <3> QED BY <3>1, <3>3
  <2>1. /\ Head(batch) \in Coros /\ Tail(batch) \in Seq(Coros)
        /\ ToSet(Queue) = ToSet(Queue') \cup {Head(batch)}
        /\ IsInjective(Queue') /\ Head(batch) \notin ToSet(Queue')
    BY <2>0, QueuePop DEF QueueInv
  <2>2. TypeOK'
    BY <2>0 DEF LoopPoints, Places
  <2>3. LoopInv'
    BY <2>0 DEF LoopInv
  <2>4. TimerInv'
    BY <2>0 DEF TimerInv
  <2>5. ThreadInv'
    BY <2>1, <2>0 DEF ThreadInv, Unshared, QueueInv
  <2>6. QueueInv'
    BY <2>1, <2>0, <1>0 DEF QueueInv
  <2>7. HeldInv'
    BY <2>1, <2>0 DEF HeldInv, Held, TimerInv
  <2>8. WakeInv'
    BY <2>0 DEF WakeInv, WakePending
  <2>9. DeadlineInv'
    BY <2>1, <2>0, <1>0 DEF DeadlineInv
  <2> QED BY <2>2, <2>3, <2>4, <2>5, <2>6, <2>7, <2>8, <2>9
<1>10. ASSUME DrainDone
      PROVE  IoInductive'
  <2>1. Queue' = Queue
    BY <1>10 DEF DrainDone, Queue
  <2>2. TypeOK'
    BY <1>10 DEF DrainDone, LoopPoints
  <2>3. LoopInv'
    BY <1>10 DEF DrainDone, LoopInv
  <2>4. TimerInv'
    BY <1>10 DEF DrainDone, TimerInv
  <2>5. ThreadInv'
    BY <1>10 DEF DrainDone, ThreadInv, Unshared
  <2>6. QueueInv'
    BY <1>10, <2>1 DEF DrainDone, QueueInv
  <2>7. HeldInv'
    BY <1>10, <2>1 DEF DrainDone, HeldInv, Held
  <2>8. WakeInv'
    BY <1>10 DEF DrainDone, WakeInv, WakePending
  <2>9. DeadlineInv'
    BY <1>10, <2>1 DEF DrainDone, DeadlineInv
  <2> QED BY <2>2, <2>3, <2>4, <2>5, <2>6, <2>7, <2>8, <2>9
<1>11. ASSUME RegisterOnLoop, requested[current]
      PROVE  IoInductive'
  <2>0. /\ lpc = "register" /\ current \in Coros /\ timer[current] \in Timers
        /\ Unshared(current)
        /\ ready' = Append(ready, current) /\ heap' = heap \cup {timer[current]}
        /\ completed' = [completed EXCEPT ![timer[current]] = TRUE]
        /\ cancelled' = [cancelled EXCEPT ![timer[current]] = TRUE]
        /\ signalled' = TRUE /\ lpc' = "resume" /\ current' = NoCoro
        /\ UNCHANGED <<stopped, joinable, opc, runs, now, last,
             wakeAt, due, batch, place, thread, pushing, timer,
             handle, deadline, requested, callback, kpc, kcb>>
    BY <1>11 DEF RegisterOnLoop, InlineCallback, Wake, ThreadInv, Unshared
  <2>1. /\ ToSet(Queue') = ToSet(Queue) \cup {current} /\ IsInjective(Queue')
        /\ current \notin ToSet(Queue)
    BY <2>0, QueuePush DEF QueueInv, Unshared
  <2>2. TypeOK'
    BY <2>0 DEF LoopPoints
  <2>3. LoopInv'
    BY <2>0 DEF LoopInv
  <2>4. TimerInv'
    BY <2>0 DEF TimerInv, Unshared
  <2>5. ThreadInv'
    BY <2>0 DEF ThreadInv, TimerInv, Unshared
  <2>6. QueueInv'
    BY <2>1, <2>0 DEF QueueInv, TimerInv, ThreadInv, Unshared
  <2>7. HeldInv'
    BY <2>1, <2>0 DEF HeldInv, Held, TimerInv
  <2>8. WakeInv'
    BY <2>0 DEF WakeInv
  <2>9. DeadlineInv'
    BY <1>11, <2>1, <2>0 DEF DeadlineInv, TimerInv
  <2> QED BY <2>2, <2>3, <2>4, <2>5, <2>6, <2>7, <2>8, <2>9
<1>12. ASSUME RegisterOnLoop, ~requested[current]
      PROVE  IoInductive'
  <2>0. /\ lpc = "register" /\ current \in Coros /\ timer[current] \in Timers
        /\ Unshared(current)
        /\ callback' = [callback EXCEPT ![current] = timer[current]]
        /\ heap' = heap \cup {timer[current]}
        /\ signalled' = TRUE /\ lpc' = "resume" /\ current' = NoCoro
        /\ UNCHANGED <<ready, stopped, joinable, opc, runs, now, last,
             wakeAt, due, batch, place, thread, pushing, timer,
             handle, deadline, completed, cancelled, requested, kpc,
             kcb>>
    BY <1>12 DEF RegisterOnLoop, Wake, ThreadInv, Unshared
  <2>1. Queue' = Queue
    BY <2>0 DEF Queue
  <2>2. TypeOK'
    BY <2>0 DEF LoopPoints
  <2>3. LoopInv'
    BY <2>0 DEF LoopInv
  <2>4. TimerInv'
    BY IoAssumption, <2>0 DEF TimerInv
  <2>5. ThreadInv'
    BY <2>0 DEF ThreadInv, TimerInv, Unshared
  <2>6. QueueInv' /\ DeadlineInv'
    BY <2>0 DEF QueueInv, Queue, DeadlineInv
  <2>7. HeldInv'
    BY <2>1, <2>0 DEF HeldInv, Held
  <2>8. WakeInv'
    BY <2>0 DEF WakeInv
  <2> QED BY <2>2, <2>3, <2>4, <2>5, <2>6, <2>7, <2>8
<1>13. ASSUME Run
      PROVE  IoInductive'
  <2>0. /\ opc = "idle" /\ ~joinable /\ runs' \in 0..MaxRuns
        /\ stopped' = FALSE /\ joinable' = TRUE /\ lpc' = "test" /\ last' = FALSE
        /\ UNCHANGED <<ready, signalled, opc, now, wakeAt, due, batch,
             current, place, thread, pushing, timer, heap, handle,
             deadline, completed, cancelled, requested, callback, kpc,
             kcb>>
    BY <1>13, IoAssumption DEF Run
  <2>1. Queue' = Queue
    BY <2>0 DEF Queue
  <2>2. TypeOK'
    BY <2>0 DEF LoopPoints, Places, ThreadPoints, CancelPoints, Never, LoopInv
  <2>3. LoopInv'
    BY <2>0 DEF LoopInv
  <2>4. TimerInv' /\ QueueInv' /\ DeadlineInv'
    BY <2>0 DEF TimerInv, QueueInv, Queue, DeadlineInv
  <2>5. ThreadInv'
    BY <2>0 DEF ThreadInv, Unshared
  <2>7. HeldInv'
    BY <2>1, <2>0 DEF HeldInv, Held, LoopInv
  <2>8. WakeInv'
    BY <2>0 DEF WakeInv, WakePending, LoopInv
  <2> QED BY <2>2, <2>3, <2>4, <2>5, <2>7, <2>8
<1>14. ASSUME Stop
      PROVE  IoInductive'
  <2>1. Queue' = Queue
    BY <1>14 DEF Stop, Queue
  <2>2. TypeOK'
    BY <1>14 DEF Stop
  <2>3. LoopInv'
    BY <1>14 DEF Stop, LoopInv
  <2>4. TimerInv'
    BY <1>14 DEF Stop, TimerInv
  <2>5. ThreadInv'
    BY <1>14 DEF Stop, ThreadInv, Unshared
  <2>6. QueueInv'
    BY <1>14, <2>1 DEF Stop, QueueInv
  <2>7. HeldInv'
    BY <1>14, <2>1 DEF Stop, HeldInv, Held
  <2>8. WakeInv'
    BY <1>14 DEF Stop, WakeInv, WakePending
  <2>9. DeadlineInv'
    BY <1>14, <2>1 DEF Stop, DeadlineInv
  <2> QED BY <2>2, <2>3, <2>4, <2>5, <2>6, <2>7, <2>8, <2>9
<1>15. ASSUME StopWake
      PROVE  IoInductive'
  <2>1. Queue' = Queue
    BY <1>15 DEF StopWake, Queue
  <2>2. TypeOK'
    BY <1>15 DEF StopWake, Wake
  <2>3. LoopInv'
    BY <1>15 DEF StopWake, LoopInv
  <2>4. TimerInv'
    BY <1>15 DEF StopWake, TimerInv
  <2>5. ThreadInv'
    BY <1>15 DEF StopWake, ThreadInv, Unshared
  <2>6. QueueInv'
    BY <1>15, <2>1 DEF StopWake, QueueInv
  <2>7. HeldInv'
    BY <1>15, <2>1 DEF StopWake, HeldInv, Held
  <2>8. WakeInv'
    BY <1>15 DEF StopWake, Wake, WakeInv
  <2>9. DeadlineInv'
    BY <1>15, <2>1 DEF StopWake, DeadlineInv
  <2> QED BY <2>2, <2>3, <2>4, <2>5, <2>6, <2>7, <2>8, <2>9
<1>16. ASSUME StopJoin
      PROVE  IoInductive'
  <2>1. Queue' = Queue
    BY <1>16 DEF StopJoin, Queue
  <2>2. TypeOK'
    BY <1>16 DEF StopJoin, LoopPoints, Places, ThreadPoints, CancelPoints, Never
  <2>3. LoopInv'
    BY <1>16 DEF StopJoin, LoopInv
  <2>4. TimerInv'
    BY <1>16 DEF StopJoin, TimerInv
  <2>5. ThreadInv'
    BY <1>16 DEF StopJoin, ThreadInv, Unshared
  <2>6. QueueInv'
    BY <1>16, <2>1 DEF StopJoin, QueueInv
  <2>7. HeldInv'
    BY <1>16, <2>1 DEF StopJoin, HeldInv, Held
  <2>8. WakeInv'
    BY <1>16 DEF StopJoin, WakeInv, WakePending
  <2>9. DeadlineInv'
    BY <1>16, <2>1 DEF StopJoin, DeadlineInv
  <2> QED BY <2>2, <2>3, <2>4, <2>5, <2>6, <2>7, <2>8, <2>9
<1>17. ASSUME Tick
      PROVE  IoInductive'
  <2>0. /\ now' \in 0..MaxTime /\ \A d \in 0..Never : d <= now => d <= now'
        /\ UNCHANGED <<ready, signalled, stopped, joinable, opc, runs,
             lpc, last, wakeAt, due, batch, current, place, thread,
             pushing, timer, heap, handle, deadline, completed,
             cancelled, requested, callback, kpc, kcb>>
    BY <1>17, IoAssumption DEF Tick
  <2>1. Queue' = Queue
    BY <2>0 DEF Queue
  <2>2. TypeOK'
    BY <2>0
  <2>3. LoopInv' /\ TimerInv' /\ ThreadInv' /\ QueueInv' /\ HeldInv' /\ WakeInv'
    BY <2>0
       DEF LoopInv, TimerInv, ThreadInv, Unshared, QueueInv, Queue, HeldInv, Held,
           WakeInv, WakePending
  <2>9. DeadlineInv'
    BY <2>1, <2>0, <1>0 DEF DeadlineInv
  <2> QED BY <2>2, <2>3, <2>9
<1>18. ASSUME NEW c \in Coros, ScheduleAway(c)
      PROVE  IoInductive'
  <2>0. c \in Coros /\ c \notin ToSet(Queue)
    BY <1>18 DEF ScheduleAway, RunsAway, QueueInv
  <2>1. ToSet(Queue') = ToSet(Queue) \cup {c} /\ IsInjective(Queue')
    BY <1>18, <2>0, QueuePush DEF ScheduleAway, QueueInv
  <2>2. TypeOK'
    BY <1>18 DEF ScheduleAway, RunsAway, Places, ThreadPoints, CancelPoints
  <2>3. LoopInv'
    BY <1>18 DEF ScheduleAway, LoopInv
  <2>4. TimerInv'
    BY <1>18 DEF ScheduleAway, TimerInv
  <2>5. ThreadInv'
    BY <1>18 DEF ScheduleAway, RunsAway, ThreadInv, Unshared
  <2>6. QueueInv'
    BY <1>18, <2>1 DEF ScheduleAway, RunsAway, QueueInv, TimerInv, ThreadInv
  <2>7. HeldInv'
    BY <1>18, <2>1 DEF ScheduleAway, RunsAway, HeldInv, Held, TimerInv
  <2>8. WakeInv'
    BY <1>18 DEF ScheduleAway, WakeInv, WakePending
  <2>9. DeadlineInv'
    BY <1>18, <2>1, <1>0 DEF ScheduleAway, RunsAway, DeadlineInv, TimerInv
  <2> QED BY <2>2, <2>3, <2>4, <2>5, <2>6, <2>7, <2>8, <2>9
<1>19. ASSUME NEW c \in Coros, SleepAway(c)
      PROVE  IoInductive'
  <2>0. /\ place[c] = "away" /\ thread[c] = "none"
        /\ NewAddress \in Timers /\ NewAddress \notin heap /\ NewAddress \notin due
        /\ \A d \in Coros : timer[d] # NewAddress /\ pushing[d] # NewAddress
                          /\ callback[d] # NewAddress /\ kcb[d] # NewAddress
        /\ timer' = [timer EXCEPT ![c] = NewAddress]
        /\ handle' = [handle EXCEPT ![NewAddress] = c]
        /\ deadline' \in [Timers -> 0..Never]
        /\ \A s \in Timers \ {NewAddress} : deadline'[s] = deadline[s]
        /\ completed' = [completed EXCEPT ![NewAddress] = FALSE]
        /\ cancelled' = [cancelled EXCEPT ![NewAddress] = FALSE]
        /\ place' = [place EXCEPT ![c] = "waiting"]
        /\ thread' \in [Coros -> ThreadPoints] /\ thread'[c] \in {"register", "push"}
        /\ \A d \in Coros \ {c} : thread'[d] = thread[d]
        /\ pushing' = [pushing EXCEPT ![c] = NewAddress]
        /\ UNCHANGED <<ready, signalled, stopped, joinable, opc, runs,
             now, lpc, last, wakeAt, due, batch, current, heap,
             requested, callback, kpc, kcb>>
    <3>1. PICK d \in Delays, tok \in BOOLEAN :
            NewTimer(c, NewAddress, d) /\ ThreadGoto(c, IF tok THEN "register" ELSE "push")
      BY <1>19 DEF SleepAway
    <3>2. /\ deadline' \in [Timers -> 0..Never]
          /\ \A s \in Timers \ {NewAddress} : deadline'[s] = deadline[s]
      BY <1>19, IoAssumption, NewAddressIsFree DEF SleepAway, NewTimer, Never
    <3> QED BY <1>19, <3>2, NewAddressIsFree
         DEF SleepAway, RunsAway, NewTimer, ThreadPoints
  <2>1. Queue' = Queue
    BY <2>0 DEF Queue
  <2>2. TypeOK'
    BY <2>0 DEF Places, ThreadInv, Unshared
  <2>3. LoopInv'
    BY <2>0 DEF LoopInv
  <2>4. TimerInv'
    BY IoAssumption, <2>0 DEF TimerInv, QueueInv, LoopInv
  <2>5. ThreadInv'
    BY <2>0 DEF ThreadInv, TimerInv, Unshared
  <2>6. QueueInv'
    BY <2>1, <2>0, <1>0 DEF QueueInv
  <2>7. HeldInv'
    BY IoAssumption, <2>1, <2>0 DEF HeldInv, Held
  <2>8. WakeInv'
    <3>1. WakePending => WakePending'
      BY <2>0 DEF WakePending
    <3> QED BY <2>0, <3>1 DEF WakeInv
  <2>9. DeadlineInv'
    <3>1. c \notin ToSet(Queue)
      BY <2>0 DEF QueueInv
    <3>2. \A d \in Coros \ {c} : timer'[d] = timer[d] /\ timer[d] # NewAddress
      BY <2>0
    <3>3. ASSUME NEW d \in Coros \ {c}, timer[d] # NoTimer
          PROVE  /\ cancelled'[timer[d]] = cancelled[timer[d]]
                 /\ deadline'[timer[d]] = deadline[timer[d]]
      <4>1. timer[d] \in Timers \ {NewAddress} /\ cancelled \in [Timers -> BOOLEAN]
        BY <3>2, <3>3
      <4>2. cancelled' = [cancelled EXCEPT ![NewAddress] = FALSE]
        BY <2>0
      <4>3. cancelled'[timer[d]] = cancelled[timer[d]]
        BY <4>1, <4>2, Zenon
      <4> QED BY <2>0, <4>1
    <3>4. timer'[c] = NewAddress /\ cancelled'[NewAddress] = FALSE
      BY <2>0
    <3>5. \A s \in due : deadline'[s] = deadline[s]
      BY <2>0
    <3> HIDE DEF Queue
    <3>6. /\ now' = now /\ kpc' = kpc /\ requested' = requested /\ due' = due
      BY <2>0
    <3>7. \A s \in due' : deadline'[s] <= now'
      BY <3>5, <3>6 DEF DeadlineInv
    <3>8. ASSUME NEW d \in Coros, timer'[d] # NoTimer, cancelled'[timer'[d]]
          PROVE  requested'[d]
      BY <3>2, <3>3, <3>4, <3>6, <3>8 DEF DeadlineInv
    <3>9. ASSUME NEW d \in ToSet(Queue'), timer'[d] # NoTimer, ~cancelled'[timer'[d]]
          PROVE  deadline'[timer'[d]] <= now'
      BY <1>0, <2>1, <3>1, <3>2, <3>3, <3>6, <3>9 DEF DeadlineInv
    <3> QED BY <3>6, <3>7, <3>8, <3>9 DEF DeadlineInv
  <2> QED BY <2>2, <2>3, <2>4, <2>5, <2>6, <2>7, <2>8, <2>9
<1>20. ASSUME NEW c \in Coros, RegisterAway(c), requested[c]
      PROVE  IoInductive'
  <2>0. /\ thread[c] = "register" /\ pushing[c] \in Timers /\ timer[c] = pushing[c]
        /\ Unshared(c)
        /\ ready' = Append(ready, c)
        /\ completed' = [completed EXCEPT ![pushing[c]] = TRUE]
        /\ cancelled' = [cancelled EXCEPT ![pushing[c]] = TRUE]
        /\ thread' = [thread EXCEPT ![c] = "inline_wake"]
        /\ UNCHANGED <<signalled, stopped, joinable, opc, runs, now,
             lpc, last, wakeAt, due, batch, current, place, pushing,
             timer, heap, handle, deadline, requested, callback, kpc,
             kcb>>
    BY <1>20 DEF RegisterAway, InlineCallback, ThreadInv
  <2>1. /\ ToSet(Queue') = ToSet(Queue) \cup {c} /\ IsInjective(Queue')
        /\ c \notin ToSet(Queue)
    BY <2>0, QueuePush DEF QueueInv, Unshared
  <2>2. TypeOK'
    BY <2>0 DEF ThreadPoints
  <2>3. LoopInv'
    BY <2>0 DEF LoopInv
  <2>4. TimerInv'
    BY <2>0 DEF TimerInv
  <2>5. ThreadInv'
    BY <2>0 DEF ThreadInv, TimerInv, Unshared
  <2>6. QueueInv'
    BY <2>1, <2>0 DEF QueueInv, TimerInv, ThreadInv, Unshared
  <2>7. HeldInv'
    BY <2>1, <2>0 DEF HeldInv, Held, TimerInv
  <2>8. WakeInv'
    BY <2>0 DEF WakeInv, WakePending
  <2>9. DeadlineInv'
    BY <1>20, <2>1, <2>0 DEF DeadlineInv, TimerInv, QueueInv
  <2> QED BY <2>2, <2>3, <2>4, <2>5, <2>6, <2>7, <2>8, <2>9
<1>21. ASSUME NEW c \in Coros, RegisterAway(c), ~requested[c]
      PROVE  IoInductive'
  <2>0. /\ thread[c] = "register" /\ pushing[c] \in Timers /\ timer[c] = pushing[c]
        /\ Unshared(c)
        /\ callback' = [callback EXCEPT ![c] = pushing[c]]
        /\ thread' = [thread EXCEPT ![c] = "push"]
        /\ UNCHANGED <<ready, signalled, stopped, joinable, opc, runs,
             now, lpc, last, wakeAt, due, batch, current, place,
             pushing, timer, heap, handle, deadline, completed,
             cancelled, requested, kpc, kcb>>
    BY <1>21 DEF RegisterAway, ThreadInv
  <2>1. Queue' = Queue
    BY <2>0 DEF Queue
  <2>2. TypeOK'
    BY <2>0 DEF ThreadPoints
  <2>3. LoopInv' /\ QueueInv' /\ DeadlineInv'
    BY <2>0 DEF LoopInv, QueueInv, Queue, DeadlineInv
  <2>4. TimerInv'
    BY <2>0 DEF TimerInv
  <2>5. ThreadInv'
    BY <2>0 DEF ThreadInv, Unshared
  <2>7. HeldInv'
    BY <2>1, <2>0 DEF HeldInv, Held
  <2>8. WakeInv'
    BY <2>0 DEF WakeInv, WakePending
  <2> QED BY <2>2, <2>3, <2>4, <2>5, <2>7, <2>8
<1>22. ASSUME NEW c \in Coros, PushAway(c)
      PROVE  IoInductive'
  <2>0. /\ thread[c] = "push" /\ pushing[c] \in Timers
        /\ heap' = heap \cup {pushing[c]}
        /\ pushing' = [pushing EXCEPT ![c] = NoTimer]
        /\ thread' = [thread EXCEPT ![c] = "wake"]
        /\ UNCHANGED <<ready, signalled, stopped, joinable, opc, runs,
             now, lpc, last, wakeAt, due, batch, current, place,
             timer, handle, deadline, completed, cancelled, requested,
             callback, kpc, kcb>>
    BY <1>22 DEF PushAway, ThreadInv
  <2>1. Queue' = Queue
    BY <2>0 DEF Queue
  <2>2. TypeOK'
    BY <2>0 DEF ThreadPoints
  <2>3. LoopInv' /\ QueueInv' /\ DeadlineInv'
    BY <2>0 DEF LoopInv, QueueInv, Queue, DeadlineInv
  <2>4. TimerInv'
    BY <2>0 DEF TimerInv, ThreadInv
  <2>5. ThreadInv'
    BY <2>0 DEF ThreadInv, TimerInv, Unshared
  <2>7. HeldInv'
    BY <2>1, <2>0 DEF HeldInv, Held
  <2>8. WakeInv'
    BY <2>0 DEF WakeInv, WakePending
  <2> QED BY <2>2, <2>3, <2>4, <2>5, <2>7, <2>8
<1>23. ASSUME NEW c \in Coros, WakeAway(c)
      PROVE  IoInductive'
  <2>1. Queue' = Queue
    BY <1>23 DEF WakeAway, Queue
  <2>2. TypeOK'
    BY <1>23 DEF WakeAway, Wake, ThreadPoints
  <2>3. LoopInv'
    BY <1>23 DEF WakeAway, LoopInv
  <2>4. TimerInv'
    BY <1>23 DEF WakeAway, TimerInv
  <2>5. ThreadInv'
    BY <1>23 DEF WakeAway, ThreadInv, Unshared
  <2>6. QueueInv'
    BY <1>23, <2>1 DEF WakeAway, QueueInv
  <2>7. HeldInv'
    BY <1>23, <2>1 DEF WakeAway, HeldInv, Held
  <2>8. WakeInv'
    BY <1>23 DEF WakeAway, Wake, WakeInv
  <2>9. DeadlineInv'
    BY <1>23, <2>1 DEF WakeAway, DeadlineInv
  <2> QED BY <2>2, <2>3, <2>4, <2>5, <2>6, <2>7, <2>8, <2>9
<1>24. ASSUME NEW c \in Coros, ScheduleOnLoop(c)
      PROVE  IoInductive'
  <2>0. c \in Coros /\ c \notin ToSet(Queue)
    BY <1>24 DEF ScheduleOnLoop, QueueInv
  <2>1. ToSet(Queue') = ToSet(Queue) \cup {c} /\ IsInjective(Queue')
    BY <1>24, QueuePush DEF ScheduleOnLoop, QueueInv
  <2>2. TypeOK'
    BY <1>24 DEF ScheduleOnLoop, Wake, LoopPoints, Places
  <2>3. LoopInv'
    BY <1>24 DEF ScheduleOnLoop, LoopInv
  <2>4. TimerInv'
    BY <1>24 DEF ScheduleOnLoop, TimerInv
  <2>5. ThreadInv'
    BY <1>24 DEF ScheduleOnLoop, ThreadInv, Unshared
  <2>6. QueueInv'
    BY <1>24, <2>1 DEF ScheduleOnLoop, QueueInv, TimerInv, ThreadInv
  <2>7. HeldInv'
    BY <1>24, <2>1 DEF ScheduleOnLoop, HeldInv, Held, TimerInv
  <2>8. WakeInv'
    BY <1>24 DEF ScheduleOnLoop, Wake, WakeInv
  <2>9. DeadlineInv'
    BY <1>24, <2>1, <1>0 DEF ScheduleOnLoop, DeadlineInv, TimerInv
  <2> QED BY <2>2, <2>3, <2>4, <2>5, <2>6, <2>7, <2>8, <2>9
<1>25. ASSUME NEW c \in Coros, SleepOnLoop(c), lpc' = "register"
      PROVE  IoInductive'
  <2>0. /\ place[c] = "running" /\ lpc = "running" /\ current = c /\ lpc' = "register"
        /\ NewAddress \in Timers /\ NewAddress \notin heap /\ NewAddress \notin due
        /\ \A d \in Coros : timer[d] # NewAddress /\ pushing[d] # NewAddress
                          /\ callback[d] # NewAddress /\ kcb[d] # NewAddress
        /\ timer' = [timer EXCEPT ![c] = NewAddress]
        /\ handle' = [handle EXCEPT ![NewAddress] = c]
        /\ deadline' \in [Timers -> 0..Never]
        /\ \A s \in Timers \ {NewAddress} : deadline'[s] = deadline[s]
        /\ completed' = [completed EXCEPT ![NewAddress] = FALSE]
        /\ cancelled' = [cancelled EXCEPT ![NewAddress] = FALSE]
        /\ place' = [place EXCEPT ![c] = "waiting"]
        /\ UNCHANGED <<ready, signalled, stopped, joinable, opc, runs,
             now, last, wakeAt, due, batch, current, thread, pushing,
             heap, requested, callback, kpc, kcb>>
    BY <1>25, IoAssumption, NewAddressIsFree DEF SleepOnLoop, NewTimer, Never
  <2>1. Queue' = Queue
    BY <2>0 DEF Queue
  <2>2. TypeOK'
    BY <2>0 DEF LoopPoints, Places
  <2>3. LoopInv'
    BY <2>0 DEF LoopInv
  <2>4. TimerInv'
    BY <1>25, IoAssumption, <2>1, <2>0 DEF TimerInv, ThreadInv, Unshared, LoopInv
  <2>5. ThreadInv'
    BY <2>0 DEF ThreadInv, TimerInv, Unshared
  <2>6. QueueInv'
    BY <2>1, <2>0, <1>0 DEF QueueInv
  <2>7. HeldInv'
    BY IoAssumption, <2>1, <2>0 DEF HeldInv, Held
  <2>8. WakeInv'
    BY <2>0 DEF WakeInv, WakePending
  <2>9. DeadlineInv'
    BY <2>1, <2>0, <1>0 DEF DeadlineInv, QueueInv, LoopInv
  <2> QED BY <2>2, <2>3, <2>4, <2>5, <2>6, <2>7, <2>8, <2>9
<1>26. ASSUME NEW c \in Coros, SleepOnLoop(c), lpc' # "register"
      PROVE  IoInductive'
  <2>0. /\ place[c] = "running" /\ lpc = "running" /\ current = c
        /\ NewAddress \in Timers /\ NewAddress \notin heap /\ NewAddress \notin due
        /\ \A d \in Coros : timer[d] # NewAddress /\ pushing[d] # NewAddress
                          /\ callback[d] # NewAddress /\ kcb[d] # NewAddress
        /\ timer' = [timer EXCEPT ![c] = NewAddress]
        /\ handle' = [handle EXCEPT ![NewAddress] = c]
        /\ deadline' \in [Timers -> 0..Never]
        /\ \A s \in Timers \ {NewAddress} : deadline'[s] = deadline[s]
        /\ completed' = [completed EXCEPT ![NewAddress] = FALSE]
        /\ cancelled' = [cancelled EXCEPT ![NewAddress] = FALSE]
        /\ place' = [place EXCEPT ![c] = "waiting"]
        /\ heap' = heap \cup {NewAddress} /\ signalled' = TRUE
        /\ lpc' = "resume" /\ current' = NoCoro
        /\ UNCHANGED <<ready, stopped, joinable, opc, runs, now, last,
             wakeAt, due, batch, thread, pushing, requested, callback,
             kpc, kcb>>
    BY <1>26, IoAssumption, NewAddressIsFree DEF SleepOnLoop, NewTimer, Wake, Never
  <2>1. Queue' = Queue
    BY <2>0 DEF Queue
  <2>2. TypeOK'
    BY <2>0 DEF LoopPoints, Places
  <2>3. LoopInv'
    BY <2>0 DEF LoopInv
  <2>4. TimerInv'
    BY IoAssumption, <2>0 DEF TimerInv, LoopInv
  <2>5. ThreadInv'
    BY <2>0 DEF ThreadInv, TimerInv, Unshared
  <2>6. QueueInv'
    BY <2>1, <2>0, <1>0 DEF QueueInv
  <2>7. HeldInv'
    BY IoAssumption, <2>1, <2>0 DEF HeldInv, Held
  <2>8. WakeInv'
    BY <2>0 DEF WakeInv
  <2>9. DeadlineInv'
    BY <2>1, <2>0, <1>0 DEF DeadlineInv, QueueInv, LoopInv
  <2> QED BY <2>2, <2>3, <2>4, <2>5, <2>6, <2>7, <2>8, <2>9
<1>27. ASSUME NEW c \in Coros, LeaveLoop(c)
      PROVE  IoInductive'
  <2>1. Queue' = Queue
    BY <1>27 DEF LeaveLoop, Queue
  <2>2. TypeOK'
    BY <1>27 DEF LeaveLoop, LoopPoints, Places
  <2>3. LoopInv'
    BY <1>27 DEF LeaveLoop, LoopInv
  <2>4. TimerInv'
    BY <1>27 DEF LeaveLoop, TimerInv
  <2>5. ThreadInv'
    BY <1>27 DEF LeaveLoop, ThreadInv, Unshared
  <2>6. QueueInv'
    BY <1>27, <2>1 DEF LeaveLoop, QueueInv
  <2>7. HeldInv'
    BY <1>27, <2>1 DEF LeaveLoop, HeldInv, Held
  <2>8. WakeInv'
    BY <1>27 DEF LeaveLoop, WakeInv, WakePending
  <2>9. DeadlineInv'
    BY <1>27, <2>1 DEF LeaveLoop, DeadlineInv
  <2> QED BY <2>2, <2>3, <2>4, <2>5, <2>6, <2>7, <2>8, <2>9
<1>28. ASSUME NEW c \in Coros, RequestCancellation(c)
      PROVE  IoInductive'
  <2>1. Queue' = Queue
    BY <1>28 DEF RequestCancellation, Queue
  <2>2. TypeOK'
    BY <1>28 DEF RequestCancellation, CancelPoints
  <2>3. LoopInv'
    BY <1>28 DEF RequestCancellation, LoopInv
  <2>4. TimerInv'
    BY <1>28 DEF RequestCancellation, TimerInv
  <2>5. ThreadInv'
    BY <1>28 DEF RequestCancellation, ThreadInv, Unshared
  <2>6. QueueInv'
    BY <1>28, <2>1 DEF RequestCancellation, QueueInv
  <2>7. HeldInv'
    BY <1>28, <2>1 DEF RequestCancellation, HeldInv, Held
  <2>8. WakeInv'
    BY <1>28 DEF RequestCancellation, WakeInv, WakePending
  <2>9. DeadlineInv'
    BY <1>28, <2>1 DEF RequestCancellation, DeadlineInv
  <2> QED BY <2>2, <2>3, <2>4, <2>5, <2>6, <2>7, <2>8, <2>9
<1>29. ASSUME NEW c \in Coros, SwapCallbacks(c)
      PROVE  IoInductive'
  <2>1. Queue' = Queue
    BY <1>29 DEF SwapCallbacks, Queue
  <2>2. TypeOK'
    BY <1>29 DEF SwapCallbacks, CancelPoints
  <2>3. LoopInv'
    BY <1>29 DEF SwapCallbacks, LoopInv
  <2>4. TimerInv'
    BY <1>29 DEF SwapCallbacks, TimerInv
  <2>5. ThreadInv'
    BY <1>29 DEF SwapCallbacks, ThreadInv, Unshared
  <2>6. QueueInv'
    BY <1>29, <2>1 DEF SwapCallbacks, QueueInv
  <2>7. HeldInv'
    BY <1>29, <2>1 DEF SwapCallbacks, HeldInv, Held
  <2>8. WakeInv'
    BY <1>29 DEF SwapCallbacks, WakeInv, WakePending
  <2>9. DeadlineInv'
    BY <1>29, <2>1 DEF SwapCallbacks, DeadlineInv
  <2> QED BY <2>2, <2>3, <2>4, <2>5, <2>6, <2>7, <2>8, <2>9
<1>30. ASSUME NEW c \in Coros, InvokeCallback(c), kpc[c] = "mark"
      PROVE  IoInductive'
  <2>0. /\ kpc[c] = "mark" /\ kcb[c] \in Timers
        /\ completed' = [completed EXCEPT ![kcb[c]] = TRUE]
        /\ kpc' = [kpc EXCEPT ![c] = IF completed[kcb[c]] THEN "done" ELSE "store"]
        /\ kcb' = [kcb EXCEPT ![c] = IF completed[kcb[c]] THEN NoTimer ELSE kcb[c]]
        /\ UNCHANGED <<ready, signalled, stopped, joinable, opc, runs,
             now, lpc, last, wakeAt, due, batch, current, place,
             thread, pushing, timer, heap, handle, deadline,
             cancelled, requested, callback>>
    BY <1>30 DEF InvokeCallback, ThreadInv
  <2>1. Queue' = Queue
    BY <2>0 DEF Queue
  <2>2. TypeOK'
    BY <2>0 DEF CancelPoints
  <2>3. LoopInv'
    BY <2>0 DEF LoopInv
  <2>4. TimerInv'
    BY <2>0 DEF TimerInv
  <2>5. ThreadInv'
    BY <2>0 DEF ThreadInv, TimerInv, Unshared
  <2>6. QueueInv'
    BY IoAssumption, <2>1, <2>0 DEF QueueInv, TimerInv
  <2>7. HeldInv'
    BY <2>1, <2>0 DEF HeldInv, Held, TimerInv
  <2>8. WakeInv'
    BY <2>0 DEF WakeInv, WakePending
  <2>9. DeadlineInv'
    BY <2>1, <2>0 DEF DeadlineInv
  <2> QED BY <2>2, <2>3, <2>4, <2>5, <2>6, <2>7, <2>8, <2>9
<1>31. ASSUME NEW c \in Coros, InvokeCallback(c), kpc[c] = "store"
      PROVE  IoInductive'
  <2>0. /\ kpc[c] = "store" /\ kcb[c] \in Timers /\ timer[c] = kcb[c]
        /\ handle[kcb[c]] = c /\ completed[kcb[c]]
        /\ cancelled' = [cancelled EXCEPT ![kcb[c]] = TRUE]
        /\ ready' = Append(ready, c)
        /\ kpc' = [kpc EXCEPT ![c] = "wake"]
        /\ UNCHANGED <<signalled, stopped, joinable, opc, runs, now,
             lpc, last, wakeAt, due, batch, current, place, thread,
             pushing, timer, heap, handle, deadline, completed,
             requested, callback, kcb>>
    BY <1>31 DEF InvokeCallback, ThreadInv, TimerInv
  <2>1. /\ ToSet(Queue') = ToSet(Queue) \cup {c} /\ IsInjective(Queue')
        /\ c \notin ToSet(Queue)
    BY <2>0, QueuePush DEF QueueInv, Unshared
  <2>2. TypeOK'
    BY <2>0 DEF CancelPoints
  <2>3. LoopInv' /\ TimerInv'
    BY <2>0 DEF LoopInv, TimerInv
  <2>5. ThreadInv'
    BY <2>0 DEF ThreadInv, Unshared
  <2>6. QueueInv'
    BY IoAssumption, <2>1, <2>0 DEF QueueInv, TimerInv
  <2>7. HeldInv'
    BY <2>1, <2>0 DEF HeldInv, Held
  <2>8. WakeInv'
    BY <2>0 DEF WakeInv, WakePending
  <2>9. DeadlineInv'
    BY <2>1, <2>0 DEF DeadlineInv, TimerInv, QueueInv
  <2> QED BY <2>2, <2>3, <2>5, <2>6, <2>7, <2>8, <2>9
<1>32. ASSUME NEW c \in Coros, InvokeCallback(c), kpc[c] = "wake"
      PROVE  IoInductive'
  <2>0. /\ kpc[c] = "wake" /\ kcb[c] \in Timers
        /\ signalled' = TRUE
        /\ kpc' = [kpc EXCEPT ![c] = "done"]
        /\ kcb' = [kcb EXCEPT ![c] = NoTimer]
        /\ UNCHANGED <<ready, stopped, joinable, opc, runs, now, lpc,
             last, wakeAt, due, batch, current, place, thread,
             pushing, timer, heap, handle, deadline, completed,
             cancelled, requested, callback>>
    BY <1>32 DEF InvokeCallback, Wake, ThreadInv
  <2>1. Queue' = Queue
    BY <2>0 DEF Queue
  <2>2. TypeOK'
    BY <2>0 DEF CancelPoints
  <2>3. LoopInv'
    BY <2>0 DEF LoopInv
  <2>4. TimerInv'
    BY <2>0 DEF TimerInv
  <2>5. ThreadInv'
    BY <2>0 DEF ThreadInv, Unshared
  <2>6. QueueInv'
    BY <2>1, <2>0 DEF QueueInv
  <2>7. HeldInv'
    BY <2>1, <2>0 DEF HeldInv, Held
  <2>8. WakeInv'
    BY <2>0 DEF WakeInv
  <2>9. DeadlineInv'
    BY <2>1, <2>0 DEF DeadlineInv
  <2> QED BY <2>2, <2>3, <2>4, <2>5, <2>6, <2>7, <2>8, <2>9
<1>33. ASSUME UNCHANGED vars
      PROVE  IoInductive'
  <2>1. Queue' = Queue
    BY <1>33 DEF vars, Queue
  <2>2. TypeOK'
    BY <1>33 DEF vars
  <2>3. LoopInv'
    BY <1>33 DEF vars, LoopInv
  <2>4. TimerInv'
    BY <1>33 DEF vars, TimerInv
  <2>5. ThreadInv'
    BY <1>33 DEF vars, ThreadInv, Unshared
  <2>6. QueueInv'
    BY <1>33, <2>1 DEF vars, QueueInv
  <2>7. HeldInv'
    BY <1>33, <2>1 DEF vars, HeldInv, Held
  <2>8. WakeInv'
    BY <1>33 DEF vars, WakeInv, WakePending
  <2>9. DeadlineInv'
    BY <1>33, <2>1 DEF vars, DeadlineInv
  <2> QED BY <2>2, <2>3, <2>4, <2>5, <2>6, <2>7, <2>8, <2>9
<1>x. ASSUME ExpireTimer, due # {} PROVE \E s \in due : ExpireOne(s)
  BY <1>x DEF ExpireTimer, ExpireOne
<1> QED
  BY <1>1, <1>2, <1>3, <1>4, <1>5, <1>6, <1>7, <1>8, <1>9, <1>10, <1>11, <1>12, <1>13,
     <1>14, <1>15, <1>16, <1>17, <1>18, <1>19, <1>20, <1>21, <1>22, <1>23, <1>24,
     <1>25, <1>26, <1>27, <1>28, <1>29, <1>30, <1>31, <1>32, <1>33, <1>x
     DEF Next, LoopStep, StopStep, ThreadStep, CoroSuspends, CancelStep,
         RegisterOnLoop, RegisterAway, InvokeCallback

(* It holds when the io_context has been constructed.                      *)
LEMMA InvariantInit == Init => IoInductive
<1> SUFFICES ASSUME Init PROVE IoInductive
  OBVIOUS
<1> USE DEF Init, ownerVars, loopVars, threadVars, timerVars, tokenVars
<1>1. Queue = <<>> /\ ToSet(Queue) = {} /\ IsInjective(Queue)
  BY ToSetEmpty DEF Queue, IsInjective
<1>2. TypeOK
  <2>0. /\ runs \in 0..MaxRuns /\ now \in 0..MaxTime /\ wakeAt \in 0..Never
    BY IoAssumption DEF Never
  <2>1. /\ ready \in Seq(Coros) /\ batch \in Seq(Coros)
        /\ signalled \in BOOLEAN /\ stopped \in BOOLEAN /\ joinable \in BOOLEAN
        /\ opc \in {"idle", "wake", "join"} /\ lpc \in LoopPoints /\ last \in BOOLEAN
        /\ due \subseteq Timers /\ heap \subseteq Timers
        /\ current \in Coros \cup {NoCoro}
    <3>1. <<>> \in Seq(Coros)
      OBVIOUS
    <3>2. "off" \in LoopPoints
      BY DEF LoopPoints
    <3> QED BY <3>1, <3>2
  <2>2. /\ place \in [Coros -> Places]
        /\ \A c \in Coros : place[c] = "running" <=> RunsOnLoop(c)
        /\ thread \in [Coros -> ThreadPoints]
        /\ timer \in [Coros -> Timers \cup {NoTimer}]
        /\ pushing \in [Coros -> Timers \cup {NoTimer}]
        /\ callback \in [Coros -> Timers \cup {NoTimer}]
        /\ kpc \in [Coros -> CancelPoints]
        /\ kcb \in [Coros -> Timers \cup {NoTimer}]
    BY DEF Places, ThreadPoints, CancelPoints, RunsOnLoop
  <2>3. /\ handle \in [Timers -> Coros \cup {NoCoro}]
        /\ deadline \in [Timers -> 0..Never]
        /\ completed \in [Timers -> BOOLEAN] /\ cancelled \in [Timers -> BOOLEAN]
        /\ requested \in [Coros -> BOOLEAN]
    BY IoAssumption DEF Never
  <2> QED BY <2>0, <2>1, <2>2 DEF TypeOK
<1>3. LoopInv /\ TimerInv
  BY DEF LoopInv, TimerInv
<1>4. ThreadInv
  BY DEF ThreadInv
<1>5. QueueInv /\ HeldInv
  BY <1>1 DEF QueueInv, HeldInv
<1>6. WakeInv /\ DeadlineInv
  BY <1>1 DEF WakeInv, DeadlineInv
<1> QED BY <1>2, <1>3, <1>4, <1>5, <1>6 DEF IoInductive

(* Hence it holds in every state.                                          *)
LEMMA Invariance == Spec => []IoInductive
<1>1. Init => IoInductive
  BY InvariantInit
<1>2. IoInductive /\ [Next]_vars => IoInductive'
  BY InvariantStep
<1> QED BY <1>1, <1>2, PTL DEF Spec

-----------------------------------------------------------------------------
(* For every io_context, whatever its coroutines, timers and delays:       *)
(* schedule(), expiry and cancellation never resume one wait twice, never  *)
(* resume a coroutine that does not wait, and no coroutine that waits is   *)
(* out of the reach of all three.                                          *)
THEOREM ResumedOnceNeverForgotten == Spec => []IoInvariant
<1>1. IoInductive => IoInvariant
  <2> SUFFICES ASSUME IoInductive PROVE IoInvariant
    OBVIOUS
  <2>1. TypeOK
    BY DEF IoInductive
  <2>2. ResumeOnlyWaiting
    BY DEF IoInductive, QueueInv, Queue, ResumeOnlyWaiting
  <2>3. ASSUME NEW c \in Coros, place[c] = "waiting" PROVE Reachable(c)
    <3>1. Held(c)
      BY <2>3 DEF IoInductive, HeldInv
    <3>2. kpc[c] = "store" => kcb[c] = timer[c]
      BY DEF IoInductive, ThreadInv
    <3> QED BY <3>1, <3>2 DEF Held, Reachable, Queue
  <2> QED BY <2>1, <2>2, <2>3 DEF IoInvariant, NobodyForgotten
<1> QED BY <1>1, Invariance, PTL

(* The loop never sleeps in epoll_wait() through a queued coroutine, a     *)
(* stop() or a timer earlier than its timeout, unless the write to the     *)
(* eventfd that ends the sleep is on its way.                              *)
THEOREM NoLostWakeup == Spec => []SleepIsJustified
<1>1. IoInductive => SleepIsJustified
  BY DEF IoInductive, WakeInv, SleepIsJustified
<1> QED BY <1>1, Invariance, PTL

(* sleep_for() returns at its deadline or later, and throws only when its  *)
(* source was cancelled.                                                   *)
THEOREM DeadlinesAreKept == Spec => SleepsLongEnough
<1>1. ASSUME IoInductive, [Next]_vars, NEW c \in Coros, Resumes(c), timer[c] # NoTimer
      PROVE  IF cancelled[timer[c]] THEN requested[c] ELSE deadline[timer[c]] <= now
  <2>1. place \in [Coros -> Places] /\ batch \in Seq(Coros)
    BY <1>1 DEF IoInductive, TypeOK
  <2>2. place[c] = "waiting" /\ place'[c] = "running"
    BY <1>1 DEF Resumes
  <2>3. ResumeNext
    BY <1>1, <2>1, <2>2
       DEF Next, vars, ownerVars, loopVars, threadVars, timerVars, tokenVars, Move,
           LoopStep, StopStep, ThreadStep, CoroSuspends, CancelStep,
           LoopTest, PollOnce, PollEarly, CollectDue, ExpireTimer, DrainReady, DrainDone,
           RegisterOnLoop, Run, Stop, StopWake, StopJoin, Tick, ScheduleAway, SleepAway,
           RegisterAway, PushAway, WakeAway, ScheduleOnLoop, SleepOnLoop, LeaveLoop,
           RequestCancellation, SwapCallbacks, InvokeCallback
  <2>4. c = Head(batch) /\ batch # <<>>
    BY <2>2, <2>3 DEF ResumeNext, Move
  <2>5. c \in ToSet(Queue)
    <3>1. ToSet(batch) = ToSet(Tail(batch)) \cup {Head(batch)}
      BY <2>1, <2>4, ToSetTail
    <3>2. ToSet(Queue) = ToSet(batch) \cup ToSet(ready)
      BY <1>1, ToSetConcat DEF Queue, IoInductive, TypeOK
    <3> QED BY <2>4, <3>1, <3>2
  <2> QED BY <1>1, <2>5 DEF IoInductive, DeadlineInv
<1>2. IoInductive /\ [Next]_vars =>
        [\A c \in Coros :
           Resumes(c) /\ timer[c] # NoTimer =>
             IF cancelled[timer[c]] THEN requested[c] ELSE deadline[timer[c]] <= now]_vars
  BY <1>1
<1> QED BY <1>2, Invariance, PTL DEF Spec, SleepsLongEnough
=============================================================================
