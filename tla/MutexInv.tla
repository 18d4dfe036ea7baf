------------------------------ MODULE MutexInv ------------------------------
(***************************************************************************)
(* The inductive invariant behind the safety of xcoro::mutex.  Who owns    *)
(* the mutex is spread over the coroutines' program points and the flags   *)
(* of their waiters, so the invariant has to say who may touch a waiter:   *)
(* the coroutine that made it, the one thread that claimed it (unlock() or *)
(* the cancellation callback), and nobody else.                            *)
(***************************************************************************)
EXTENDS Mutex

(* Points between the creation of a waiter and the end of its suspension.  *)
Waiting == {"register", "cb_mark", "cb_store", "cb_wake", "mark", "suspended"}

(* At most one thread is inside unlock()'s critical section.               *)
GuardInv ==
  \A c \in Coros :
    /\ pc[c] \in {"unlock_pop", "unlock_wake"} => guard = c
    /\ pc[c] = "unlock_wake" => waiter # NoWaiter

(* A coroutine has a waiter exactly while it waits; its callback and its   *)
(* canceller only ever hold waiters it made.                               *)
OwnWaiterInv ==
  \A c \in Coros :
    /\ pc[c] \in Waiting => state[c] # NoWaiter
    /\ state[c] # NoWaiter =>
         pc[c] \in Waiting \cup {"resume"} /\ handle[state[c]] = c
    /\ immediate[c] => pc[c] = "resume" /\ state[c] = NoWaiter
    /\ callback[c] # NoWaiter => handle[callback[c]] = c
    /\ kcb[c] # NoWaiter => handle[kcb[c]] = c
    /\ kpc[c] \in {"cb_mark", "cb_store", "cb_wake", "resume"} => kcb[c] # NoWaiter

(* The suspend_phase of a waiter agrees with its coroutine; nobody goes on *)
(* from a wait, and no wake-up is requested, before the waiter is claimed. *)
PhaseInv ==
  /\ \A w \in Waiters : cancelled[w] => resumed[w]
  /\ \A c \in Coros : state[c] # NoWaiter =>
       /\ phase[state[c]] = "wake_requested" => resumed[state[c]]
       /\ pc[c] = "suspended" => phase[state[c]] = "suspended"
       /\ phase[state[c]] = "suspended" => pc[c] \in {"suspended", "resume"}
       /\ pc[c] = "resume" => resumed[state[c]]

(* An unclaimed waiter somebody can still reach is the one its coroutine   *)
(* waits with.                                                             *)
UnclaimedInv ==
  /\ \A w \in ToSet(waiters) : handle[w] \in Coros /\ (~resumed[w] => state[handle[w]] = w)
  /\ \A c \in Coros :
       /\ callback[c] # NoWaiter /\ ~resumed[callback[c]] => state[c] = callback[c]
       /\ kcb[c] # NoWaiter /\ ~resumed[kcb[c]] => state[c] = kcb[c]

(* A callback that has claimed a waiter has it to itself until it has      *)
(* requested the wake-up.                                                  *)
CancelInv ==
  \A c \in Coros :
    /\ pc[c] \in {"cb_store", "cb_wake"} =>
         resumed[state[c]] /\ phase[state[c]] = "waiting_await_suspend"
    /\ pc[c] = "cb_wake" => cancelled[state[c]]
    /\ callback[c] # NoWaiter /\ callback[c] = state[c] =>
         pc[c] \in {"mark", "suspended", "resume"}
    /\ kcb[c] # NoWaiter /\ kcb[c] = state[c] =>
         pc[c] \in {"mark", "suspended", "resume"}
    /\ kpc[c] \in {"cb_store", "cb_wake"} =>
         /\ resumed[kcb[c]] /\ state[c] = kcb[c]
         /\ phase[kcb[c]] # "wake_requested"
         /\ pc[c] \in {"mark", "suspended"}
    /\ kpc[c] = "cb_wake" => cancelled[kcb[c]]
    /\ kpc[c] = "resume" =>
         state[c] = kcb[c] /\ pc[c] = "suspended" /\ cancelled[kcb[c]]

(* The waiter that unlock() has claimed is granted the mutex, and only the *)
(* one unlock() that claimed it will resume its coroutine.                 *)
HandOverInv ==
  \A e \in Coros :
    /\ pc[e] = "unlock_wake" =>
         /\ handle[waiter] \in Coros
         /\ state[handle[waiter]] = waiter
         /\ Granted(handle[waiter])
         /\ phase[waiter] # "wake_requested"
         /\ pc[handle[waiter]] # "resume"
    /\ pc[e] = "unlock_resume" =>
         /\ next[e] \in Coros
         /\ Granted(next[e])
         /\ pc[next[e]] = "suspended"
         /\ \A f \in Coros :
              /\ pc[f] = "unlock_resume" /\ next[f] = next[e] => f = e
              /\ pc[f] = "unlock_wake" => handle[waiter] # next[e]

(* locked_ is set exactly while there is an owner, and there is only one;  *)
(* while it is not, nobody waits.                                          *)
OwnerInv ==
  /\ LockedIffOwned
  /\ MutualExclusion
  /\ FreeMeansNobodyWaits

(* The inductive invariant: every part holds in every reachable state.     *)
MutexInvariant ==
  /\ TypeOK
  /\ GuardInv
  /\ OwnWaiterInv
  /\ PhaseInv
  /\ UnclaimedInv
  /\ CancelInv
  /\ HandOverInv
  /\ OwnerInv
=============================================================================
