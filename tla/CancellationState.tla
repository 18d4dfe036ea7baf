-------------------------- MODULE CancellationState --------------------------
(***************************************************************************)
(* One cancellation_state (cancellation_state.hpp), shared by a            *)
(* cancellation_source and its tokens, with the cancellation_registrations *)
(* that add callbacks to it and take them out again, and the threads that  *)
(* call request_cancellation().                                            *)
(*                                                                         *)
(* Each callback r is one callback_state with the thread that registers    *)
(* it.  The critical sections of mutex_ do nothing but touch callbacks_    *)
(* and read cancelled_, so each is one step.  The body of a callback is    *)
(* the interval between two steps, in which everybody else may run: it may *)
(* register, deregister or cancel again.                                   *)
(***************************************************************************)
EXTENDS Naturals, SequencesExt

CONSTANTS Callbacks,  \* the callback_state objects
          Cancellers  \* the threads that call request_cancellation()

VARIABLES
  cancelled,  \* cancellation_state::cancelled_
  callbacks,  \* cancellation_state::callbacks_
  invoked,    \* callback_state::invoked_
  rpc,        \* where the owner of registration r is
  kpc,        \* where canceller k is
  moved,      \* k's local vector callbacks
  runs        \* how often the body of callback r was entered (history)

cancellationVars == <<cancelled, callbacks, invoked, rpc, kpc, moved, runs>>

(* "withdrawn": deregistered while callbacks_ still held the callback;     *)
(* "late": deregistered when a canceller had already moved it out.         *)
OwnerPoints  == {"idle", "add", "invoke", "calling", "refused",
                 "registered", "withdrawn", "late"}
CancelPoints == {"idle", "swap", "next", "calling", "true", "false"}

CancellationInit ==
  /\ cancelled = FALSE
  /\ callbacks = <<>>
  /\ invoked = [r \in Callbacks |-> FALSE]
  /\ rpc = [r \in Callbacks |-> "idle"]
  /\ kpc = [k \in Cancellers |-> "idle"]
  /\ moved = [k \in Cancellers |-> <<>>]
  /\ runs = [r \in Callbacks |-> 0]

-----------------------------------------------------------------------------
(* cancellation_registration::register_callback() and try_add_callback():  *)
(* a first look at cancelled_ without the lock ...                         *)
Register(r) ==
  /\ rpc[r] = "idle"
  /\ rpc' = [rpc EXCEPT ![r] = IF cancelled THEN "invoke" ELSE "add"]
  /\ UNCHANGED <<cancelled, callbacks, invoked, kpc, moved, runs>>

(* Mutant of AddCallback: cancelled_ is not read again under the lock.     *)
AddWithoutRecheck(r) ==
  /\ rpc[r] = "add"
  /\ rpc' = [rpc EXCEPT ![r] = "registered"]
  /\ callbacks' = Append(callbacks, r)
  /\ UNCHANGED <<cancelled, invoked, kpc, moved, runs>>

(* ... and a second one under it, before the callback is added.            *)
AddCallback(r) ==
  /\ rpc[r] = "add"
  /\ \/ /\ cancelled
        /\ rpc' = [rpc EXCEPT ![r] = "invoke"]
        /\ UNCHANGED callbacks
     \/ /\ ~cancelled
        /\ rpc' = [rpc EXCEPT ![r] = "registered"]
        /\ callbacks' = Append(callbacks, r)
  /\ UNCHANGED <<cancelled, invoked, kpc, moved, runs>>

(* callback_state::invoke(): the exchange that admits one caller.          *)
Enter(r) ==
  /\ invoked' = [invoked EXCEPT ![r] = TRUE]
  /\ runs' = IF invoked[r] THEN runs ELSE [runs EXCEPT ![r] = @ + 1]

(* The callback was refused: its owner invokes it and keeps no             *)
(* registration.                                                           *)
InvokeInline(r) ==
  /\ \/ /\ rpc[r] = "invoke"
        /\ Enter(r)
        /\ rpc' = [rpc EXCEPT ![r] = IF invoked[r] THEN "refused" ELSE "calling"]
     \/ /\ rpc[r] = "calling"
        /\ rpc' = [rpc EXCEPT ![r] = "refused"]
        /\ UNCHANGED <<invoked, runs>>
  /\ UNCHANGED <<cancelled, callbacks, kpc, moved>>

(* Mutant of Deregister: the registration forgets to remove the callback.  *)
DeregisterWithoutRemoval(r) ==
  /\ rpc[r] = "registered"
  /\ rpc' = [rpc EXCEPT ![r] = IF r \in ToSet(callbacks) THEN "withdrawn" ELSE "late"]
  /\ UNCHANGED <<cancelled, callbacks, invoked, kpc, moved, runs>>

(* deregister(), also run by the destructor and by move assignment:        *)
(* remove_callback() erases the callback if it is still in callbacks_.     *)
Deregister(r) ==
  /\ rpc[r] = "registered"
  /\ \/ /\ \E i \in DOMAIN callbacks :
             callbacks[i] = r /\ callbacks' = RemoveAt(callbacks, i)
        /\ rpc' = [rpc EXCEPT ![r] = "withdrawn"]
     \/ /\ r \notin ToSet(callbacks)
        /\ rpc' = [rpc EXCEPT ![r] = "late"]
        /\ UNCHANGED callbacks
  /\ UNCHANGED <<cancelled, invoked, kpc, moved, runs>>

-----------------------------------------------------------------------------
(* request_cancellation(): the first compare-exchange wins.                *)
RequestCancellation(k) ==
  /\ kpc[k] = "idle"
  /\ cancelled' = TRUE
  /\ kpc' = [kpc EXCEPT ![k] = IF cancelled THEN "false" ELSE "swap"]
  /\ UNCHANGED <<callbacks, invoked, rpc, moved, runs>>

SwapCallbacks(k) ==
  /\ kpc[k] = "swap"
  /\ moved' = [moved EXCEPT ![k] = callbacks]
  /\ callbacks' = <<>>
  /\ kpc' = [kpc EXCEPT ![k] = "next"]
  /\ UNCHANGED <<cancelled, invoked, rpc, runs>>

(* for (auto& cb : callbacks) cb->invoke(), outside the lock.              *)
InvokeNext(k) ==
  /\ kpc[k] = "next"
  /\ \/ /\ moved[k] = <<>>
        /\ kpc' = [kpc EXCEPT ![k] = "true"]
        /\ UNCHANGED <<invoked, runs, moved>>
     \/ /\ moved[k] # <<>>
        /\ Enter(Head(moved[k]))
        /\ IF invoked[Head(moved[k])]
             THEN moved' = [moved EXCEPT ![k] = Tail(@)] /\ UNCHANGED kpc
             ELSE kpc' = [kpc EXCEPT ![k] = "calling"] /\ UNCHANGED moved
  /\ UNCHANGED <<cancelled, callbacks, rpc>>

CallbackReturns(k) ==
  /\ kpc[k] = "calling"
  /\ moved' = [moved EXCEPT ![k] = Tail(@)]
  /\ kpc' = [kpc EXCEPT ![k] = "next"]
  /\ UNCHANGED <<cancelled, callbacks, invoked, rpc, runs>>

CancelStep(k) == SwapCallbacks(k) \/ InvokeNext(k) \/ CallbackReturns(k)
OwnerStep(r)  == AddCallback(r) \/ InvokeInline(r)

CancellationNext ==
  \/ \E r \in Callbacks : Register(r) \/ Deregister(r) \/ OwnerStep(r)
  \/ \E k \in Cancellers : RequestCancellation(k) \/ CancelStep(k)

CancellationSpec == CancellationInit /\ [][CancellationNext]_cancellationVars

-----------------------------------------------------------------------------
(* The types of the code's variables; the list holds a callback only once, *)
(* and only while it is registered.                                        *)
CancellationTypeOK ==
  /\ cancelled \in BOOLEAN
  /\ callbacks \in Seq(Callbacks) /\ IsInjective(callbacks)
  /\ \A r \in ToSet(callbacks) : rpc[r] = "registered"
  /\ invoked \in [Callbacks -> BOOLEAN]
  /\ rpc \in [Callbacks -> OwnerPoints]
  /\ kpc \in [Cancellers -> CancelPoints]
  /\ moved \in [Cancellers -> Seq(Callbacks)]
  /\ runs \in [Callbacks -> Nat]

(* Canceller k has taken the list, and may have run all of it.             *)
HasList(k) == kpc[k] \in {"next", "calling", "true"}

(* A canceller's vector is filled by the swap, after which the shared list *)
(* stays empty; the callback being run is at its front, and those in it    *)
(* were registered when it was taken.                                      *)
MovedInv ==
  \A k \in Cancellers :
    /\ IF HasList(k) THEN callbacks = <<>> ELSE moved[k] = <<>>
    /\ kpc[k] = "calling" => moved[k] # <<>> /\ invoked[Head(moved[k])]
    /\ \A r \in ToSet(moved[k]) : rpc[r] \in {"registered", "late"}

(* invoke() enters a callback's body at most once, whoever registers,      *)
(* cancels and deregisters around it.                                      *)
RunsAtMostOnce == \A r \in Callbacks : runs[r] = IF invoked[r] THEN 1 ELSE 0

(* Nothing runs before it is registered, and while it can still be         *)
(* withdrawn; what deregister() took out of the list never runs.           *)
WithdrawnNeverRuns ==
  \A r \in Callbacks :
    rpc[r] \in {"idle", "add", "withdrawn"} \/ r \in ToSet(callbacks) => runs[r] = 0

(* A registered callback is in the list, or has run, or is still ahead of  *)
(* the canceller that has taken the list.  So when request_cancellation()  *)
(* has returned true, all of them have run.                                *)
NoneMissed ==
  \A r \in Callbacks :
    rpc[r] = "registered" =>
      \/ r \in ToSet(callbacks) \/ runs[r] = 1
      \/ \E k \in Cancellers : kpc[k] \in {"next", "calling"} /\ r \in ToSet(moved[k])

(* request_cancellation() answers true to at most one caller, and nothing  *)
(* is refused or run before the token says that it is cancelled.           *)
OneCanceller ==
  /\ \A k \in Cancellers : kpc[k] # "idle" => cancelled
  /\ \A r \in Callbacks : rpc[r] \in {"invoke", "calling", "refused"} => cancelled
  /\ \A k, l \in Cancellers :
       kpc[k] \notin {"idle", "false"} /\ kpc[l] \notin {"idle", "false"} => k = l

(* The safety of a cancellation_state, part by part; inductive.            *)
CancellationInvariant ==
  /\ CancellationTypeOK
  /\ MovedInv
  /\ RunsAtMostOnce
  /\ WithdrawnNeverRuns
  /\ NoneMissed
  /\ OneCanceller
=============================================================================
