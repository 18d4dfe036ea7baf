------------------------------- MODULE NetProofs -------------------------------
(***************************************************************************)
(* Proofs about the resolver and the sockets.                              *)
(*                                                                         *)
(* First cancellation_state for any callbacks and cancellers, alone and    *)
(* inside the resolver, which only touches it through its operations; and  *)
(* resolver::async_resolve() for any requests, other users of the token    *)
(* and cancellers: ResolverInvariant is inductive together with            *)
(* CancellationInvariant, and the first answer to a request stands.        *)
(*                                                                         *)
(* Then the byte_buffer and the connection that reads into it, for any     *)
(* length and capacity: StreamInvariant, and the refinement of ByteStream. *)
(* The two components share no variable and no name.                       *)
(***************************************************************************)
EXTENDS Resolver, Stream, DataLemmas

(* A new cancellation_state satisfies the invariant.                       *)
LEMMA CancellationStarts == CancellationInit => CancellationInvariant
<1> SUFFICES ASSUME CancellationInit PROVE CancellationInvariant
  OBVIOUS
<1> USE DEF CancellationInit
<1>1. callbacks \in Seq(Callbacks) /\ IsInjective(callbacks) /\ ToSet(callbacks) = {}
  BY ToSetEmpty DEF IsInjective
<1>2. \A k \in Cancellers : ToSet(moved[k]) = {} /\ moved[k] \in Seq(Callbacks)
  BY ToSetEmpty
<1>3. CancellationTypeOK
  BY <1>1, <1>2 DEF CancellationTypeOK, OwnerPoints, CancelPoints
<1>4. MovedInv
  BY <1>2 DEF MovedInv, HasList
<1> QED
  BY <1>3, <1>4 DEF CancellationInvariant, RunsAtMostOnce, WithdrawnNeverRuns, NoneMissed,
                    OneCanceller

-----------------------------------------------------------------------------
(* invoke() counts a first run and no other, and touches nothing else.     *)
LEMMA EnterOnce ==
  ASSUME CancellationTypeOK, RunsAtMostOnce, NEW r \in Callbacks, Enter(r)
  PROVE  /\ invoked' \in [Callbacks -> BOOLEAN] /\ runs' \in [Callbacks -> Nat]
         /\ invoked'[r] /\ runs'[r] = 1
         /\ \A q \in Callbacks \ {r} : invoked'[q] = invoked[q] /\ runs'[q] = runs[q]
<1>1. /\ invoked' \in [Callbacks -> BOOLEAN] /\ invoked'[r]
      /\ \A q \in Callbacks \ {r} : invoked'[q] = invoked[q]
  BY Zenon DEF Enter, CancellationTypeOK
<1>2. CASE invoked[r]
  <2>1. UNCHANGED runs
    BY <1>2 DEF Enter
  <2> QED BY <1>1, <1>2, <2>1 DEF CancellationTypeOK, RunsAtMostOnce
<1>3. CASE ~invoked[r]
  <2>1. runs' = [runs EXCEPT ![r] = @ + 1] /\ runs[r] = 0
    BY <1>3 DEF Enter, RunsAtMostOnce
  <2> QED BY <1>1, <2>1 DEF CancellationTypeOK
<1> QED BY <1>2, <1>3

(* try_add_callback() and deregister() keep the list and its members in    *)
(* agreement.                                                              *)
LEMMA OwnerKeepsList ==
  ASSUME CancellationInvariant, NEW r \in Callbacks,
         Register(r) \/ AddCallback(r) \/ InvokeInline(r) \/ Deregister(r)
  PROVE  CancellationInvariant'
<1> USE DEF CancellationInvariant
<1>1. CASE Register(r)
  <2>1. CancellationTypeOK'
    BY <1>1 DEF CancellationTypeOK, Register, OwnerPoints
  <2>2. MovedInv'
    BY <1>1 DEF MovedInv, HasList, Register, CancellationTypeOK
  <2>3. (RunsAtMostOnce /\ WithdrawnNeverRuns /\ NoneMissed /\ OneCanceller)'
    BY <1>1 DEF Register, CancellationTypeOK, RunsAtMostOnce, WithdrawnNeverRuns, NoneMissed,
                OneCanceller
  <2> QED BY <2>1, <2>2, <2>3
<1>2. CASE AddCallback(r) /\ cancelled
  <2>1. /\ rpc[r] = "add" /\ rpc' = [rpc EXCEPT ![r] = "invoke"]
        /\ UNCHANGED <<cancelled, callbacks, invoked, kpc, moved, runs>>
    BY <1>2 DEF AddCallback
  <2>2. CancellationTypeOK'
    BY <2>1 DEF CancellationTypeOK, OwnerPoints
  <2>3. MovedInv'
    BY <2>1 DEF MovedInv, HasList, CancellationTypeOK
  <2>4. (RunsAtMostOnce /\ WithdrawnNeverRuns /\ NoneMissed /\ OneCanceller)'
    BY <1>2, <2>1 DEF CancellationTypeOK, RunsAtMostOnce, WithdrawnNeverRuns, NoneMissed,
                      OneCanceller
  <2> QED BY <2>2, <2>3, <2>4
<1>3. CASE AddCallback(r) /\ ~cancelled
  <2>1. /\ rpc[r] = "add" /\ rpc' = [rpc EXCEPT ![r] = "registered"]
        /\ callbacks' = Append(callbacks, r) /\ r \notin ToSet(callbacks)
        /\ UNCHANGED <<cancelled, invoked, kpc, moved, runs>>
    BY <1>3 DEF AddCallback, CancellationTypeOK
  <2>2. /\ callbacks' \in Seq(Callbacks) /\ IsInjective(callbacks')
        /\ ToSet(callbacks') = ToSet(callbacks) \cup {r}
    BY <2>1, ToSetAppend, InjectiveAppend DEF CancellationTypeOK
  <2>3. CancellationTypeOK'
    <3>1. rpc' \in [Callbacks -> OwnerPoints]
      BY <2>1 DEF CancellationTypeOK, OwnerPoints
    <3>2. \A q \in ToSet(callbacks') : rpc'[q] = "registered"
      BY <2>1, <2>2, ToSetType DEF CancellationTypeOK
    <3> QED BY <2>1, <2>2, <3>1, <3>2 DEF CancellationTypeOK
  <2>4. \A k \in Cancellers : ~HasList(k) /\ moved[k] = <<>>
    BY <1>3 DEF MovedInv, HasList, OneCanceller
  <2>5. MovedInv'
    BY <2>1, <2>4, ToSetEmpty DEF MovedInv, HasList
  <2>6. (RunsAtMostOnce /\ WithdrawnNeverRuns /\ NoneMissed)'
    BY <2>1, <2>2 DEF CancellationTypeOK, RunsAtMostOnce, WithdrawnNeverRuns, NoneMissed
  <2>7. OneCanceller'
    BY <2>1 DEF OneCanceller
  <2> QED BY <2>3, <2>5, <2>6, <2>7
<1>4. CASE InvokeInline(r)
  <2>1. /\ rpc[r] \in {"invoke", "calling"} /\ r \notin ToSet(callbacks)
        /\ \E p \in {"calling", "refused"} : rpc' = [rpc EXCEPT ![r] = p]
        /\ UNCHANGED <<cancelled, callbacks, kpc, moved>>
    BY <1>4 DEF InvokeInline, CancellationTypeOK
  <2>2. CASE UNCHANGED <<invoked, runs>>
    <3>1. CancellationTypeOK'
      BY <2>1, <2>2 DEF CancellationTypeOK, OwnerPoints
    <3>2. MovedInv'
      BY <2>1, <2>2 DEF MovedInv, HasList, CancellationTypeOK
    <3>3. (RunsAtMostOnce /\ WithdrawnNeverRuns /\ NoneMissed /\ OneCanceller)'
      BY <2>1, <2>2 DEF CancellationTypeOK, RunsAtMostOnce, WithdrawnNeverRuns, NoneMissed,
                        OneCanceller
    <3> QED BY <3>1, <3>2, <3>3
  <2>3. CASE Enter(r)
    <3>1. /\ invoked' \in [Callbacks -> BOOLEAN] /\ runs' \in [Callbacks -> Nat]
          /\ invoked'[r] /\ runs'[r] = 1
          /\ \A q \in Callbacks \ {r} : invoked'[q] = invoked[q] /\ runs'[q] = runs[q]
      BY <2>3, EnterOnce
    <3>2. CancellationTypeOK'
      <4>1. rpc' \in [Callbacks -> OwnerPoints]
        BY <2>1 DEF CancellationTypeOK, OwnerPoints
      <4>2. \A q \in ToSet(callbacks) : rpc'[q] = "registered"
        BY <2>1 DEF CancellationTypeOK
      <4> QED BY <2>1, <3>1, <4>1, <4>2 DEF CancellationTypeOK
    <3>3. ASSUME NEW k \in Cancellers, moved[k] # <<>> PROVE Head(moved[k]) \in Callbacks
      <4>1. moved[k] \in Seq(Callbacks)
        BY DEF CancellationTypeOK
      <4> QED BY <3>3, <4>1
    <3>4. MovedInv'
      <4>1. \A k \in Cancellers :
              kpc[k] = "calling" => moved[k] # <<>> /\ invoked'[Head(moved[k])]
        BY <3>1, <3>3 DEF MovedInv
      <4>2. \A k \in Cancellers : \A q \in ToSet(moved[k]) : rpc'[q] \in {"registered", "late"}
        BY <2>1 DEF MovedInv, CancellationTypeOK
      <4> QED BY <2>1, <4>1, <4>2 DEF MovedInv, HasList
    <3>5. RunsAtMostOnce'
      BY <3>1 DEF RunsAtMostOnce
    <3>6. WithdrawnNeverRuns'
      <4>1. /\ rpc'[r] \notin {"idle", "add", "withdrawn"}
            /\ \A q \in Callbacks \ {r} : rpc'[q] = rpc[q]
        BY <2>1 DEF CancellationTypeOK
      <4> QED BY <2>1, <3>1, <4>1 DEF WithdrawnNeverRuns
    <3>7. NoneMissed'
      BY <2>1, <3>1 DEF CancellationTypeOK, NoneMissed
    <3>8. OneCanceller'
      BY <2>1 DEF OneCanceller
    <3> QED BY <3>2, <3>4, <3>5, <3>6, <3>7, <3>8
  <2> QED BY <1>4, <2>2, <2>3 DEF InvokeInline
<1>5. CASE Deregister(r) /\ r \notin ToSet(callbacks)
  <2>1. UNCHANGED callbacks /\ rpc' = [rpc EXCEPT ![r] = "late"]
    BY <1>5 DEF Deregister, ToSet
  <2>2. CancellationTypeOK'
    BY <1>5, <2>1 DEF CancellationTypeOK, Deregister, OwnerPoints
  <2>3. MovedInv'
    BY <1>5, <2>1 DEF MovedInv, HasList, Deregister, CancellationTypeOK
  <2>4. (RunsAtMostOnce /\ WithdrawnNeverRuns /\ NoneMissed /\ OneCanceller)'
    BY <1>5, <2>1 DEF Deregister, CancellationTypeOK, RunsAtMostOnce, WithdrawnNeverRuns,
                NoneMissed, OneCanceller
  <2> QED BY <2>2, <2>3, <2>4
<1>6. CASE Deregister(r) /\ r \in ToSet(callbacks)
  <2>1. /\ callbacks' \in Seq(Callbacks) /\ IsInjective(callbacks')
        /\ ToSet(callbacks') = ToSet(callbacks) \ {r}
        /\ rpc' = [rpc EXCEPT ![r] = "withdrawn"]
    BY <1>6, EraseIsSubqueue DEF Deregister, CancellationTypeOK
  <2>2. CancellationTypeOK'
    BY <1>6, <2>1 DEF CancellationTypeOK, Deregister, OwnerPoints
  <2>3. \A k \in Cancellers : ~HasList(k) /\ moved[k] = <<>>
    BY <1>6, ToSetEmpty DEF MovedInv
  <2>4. MovedInv'
    BY <1>6, <2>3, ToSetEmpty DEF MovedInv, HasList, Deregister, CancellationTypeOK
  <2>5. (RunsAtMostOnce /\ WithdrawnNeverRuns /\ NoneMissed /\ OneCanceller)'
    BY <1>6, <2>1 DEF Deregister, CancellationTypeOK, RunsAtMostOnce, WithdrawnNeverRuns,
                NoneMissed, OneCanceller
  <2> QED BY <2>2, <2>4, <2>5
<1> QED
  BY <1>1, <1>2, <1>3, <1>4, <1>5, <1>6 DEF AddCallback

-----------------------------------------------------------------------------
(* The cancellers: the first swaps the list out and runs all of it.        *)
LEMMA CancellerKeepsList ==
  ASSUME CancellationInvariant, NEW k \in Cancellers, RequestCancellation(k) \/ CancelStep(k)
  PROVE  CancellationInvariant'
<1> USE DEF CancellationInvariant
<1>1. CASE RequestCancellation(k)
  <2>1. /\ cancelled' = TRUE /\ kpc[k] = "idle"
        /\ kpc' = [kpc EXCEPT ![k] = IF cancelled THEN "false" ELSE "swap"]
        /\ UNCHANGED <<callbacks, invoked, rpc, moved, runs>>
    BY <1>1 DEF RequestCancellation
  <2>2. CancellationTypeOK'
    BY <2>1 DEF CancellationTypeOK, CancelPoints
  <2>3. MovedInv'
    BY <2>1 DEF MovedInv, HasList, CancellationTypeOK
  <2>4. (RunsAtMostOnce /\ WithdrawnNeverRuns /\ NoneMissed)'
    BY <2>1 DEF CancellationTypeOK, RunsAtMostOnce, WithdrawnNeverRuns, NoneMissed
  <2>5. OneCanceller'
    BY <2>1 DEF CancellationTypeOK, OneCanceller
  <2> QED BY <2>2, <2>3, <2>4, <2>5
<1>2. CASE SwapCallbacks(k)
  <2>1. /\ kpc[k] = "swap" /\ kpc' = [kpc EXCEPT ![k] = "next"]
        /\ moved' = [moved EXCEPT ![k] = callbacks] /\ callbacks' = <<>>
        /\ UNCHANGED <<cancelled, invoked, rpc, runs>>
    BY <1>2 DEF SwapCallbacks
  <2>2. ToSet(callbacks') = {} /\ IsInjective(callbacks')
    BY <2>1, ToSetEmpty DEF IsInjective
  <2>3. CancellationTypeOK'
    BY <2>1, <2>2 DEF CancellationTypeOK, CancelPoints
  <2>4. \A l \in Cancellers \ {k} : ~HasList(l) /\ kpc'[l] = kpc[l] /\ moved'[l] = moved[l]
    BY <2>1 DEF CancellationTypeOK, OneCanceller, HasList
  <2>5. kpc'[k] = "next" /\ moved'[k] = callbacks
    BY <2>1 DEF CancellationTypeOK
  <2>6. MovedInv'
    BY <2>1, <2>4, <2>5, ToSetEmpty DEF CancellationTypeOK, MovedInv, HasList
  <2>7. (RunsAtMostOnce /\ WithdrawnNeverRuns)'
    BY <2>1, <2>2 DEF RunsAtMostOnce, WithdrawnNeverRuns
  <2>8. NoneMissed'
    BY <2>1, <2>4, <2>5 DEF NoneMissed, HasList
  <2>9. OneCanceller'
    BY <2>1 DEF CancellationTypeOK, OneCanceller
  <2> QED BY <2>3, <2>6, <2>7, <2>8, <2>9
<1>3. CASE InvokeNext(k) /\ moved[k] = <<>>
  <2>1. /\ kpc[k] = "next" /\ kpc' = [kpc EXCEPT ![k] = "true"]
        /\ UNCHANGED <<cancelled, callbacks, invoked, rpc, moved, runs>>
    BY <1>3 DEF InvokeNext
  <2>2. CancellationTypeOK'
    BY <2>1 DEF CancellationTypeOK, CancelPoints
  <2>3. MovedInv'
    BY <2>1 DEF MovedInv, HasList, CancellationTypeOK
  <2>4. (RunsAtMostOnce /\ WithdrawnNeverRuns)'
    BY <2>1 DEF RunsAtMostOnce, WithdrawnNeverRuns
  <2>5. NoneMissed'
    BY <1>3, <2>1, ToSetEmpty DEF CancellationTypeOK, NoneMissed
  <2>6. OneCanceller'
    BY <2>1 DEF CancellationTypeOK, OneCanceller
  <2> QED BY <2>2, <2>3, <2>4, <2>5, <2>6
<1>4. CASE InvokeNext(k) /\ moved[k] # <<>> /\ ~invoked[Head(moved[k])]
  <2> DEFINE r == Head(moved[k])
  <2>1. /\ r \in Callbacks /\ r \in ToSet(moved[k]) /\ callbacks = <<>>
        /\ kpc[k] = "next" /\ kpc' = [kpc EXCEPT ![k] = "calling"]
        /\ Enter(r)
        /\ UNCHANGED <<cancelled, callbacks, rpc, moved>>
    BY <1>4, ToSetTail DEF InvokeNext, CancellationTypeOK, MovedInv, HasList
  <2> HIDE DEF r
  <2>2. /\ invoked' \in [Callbacks -> BOOLEAN] /\ runs' \in [Callbacks -> Nat]
        /\ invoked'[r] /\ runs'[r] = 1
        /\ \A q \in Callbacks \ {r} : invoked'[q] = invoked[q] /\ runs'[q] = runs[q]
    BY <2>1, EnterOnce
  <2>3. CancellationTypeOK'
    BY <2>1, <2>2 DEF CancellationTypeOK, CancelPoints
  <2>4. MovedInv'
    <3>1. \A l \in Cancellers \ {k} : kpc'[l] = kpc[l] /\ ~HasList(l)
      BY <2>1 DEF CancellationTypeOK, OneCanceller, HasList
    <3>2. kpc'[k] = "calling" /\ invoked'[Head(moved'[k])]
      BY <2>1, <2>2 DEF CancellationTypeOK, r
    <3> QED BY <1>4, <2>1, <3>1, <3>2 DEF MovedInv, HasList
  <2>5. RunsAtMostOnce'
    BY <2>2 DEF RunsAtMostOnce
  <2>6. WithdrawnNeverRuns'
    BY <2>1, <2>2, ToSetEmpty DEF WithdrawnNeverRuns, MovedInv
  <2>7. NoneMissed'
    BY <2>1, <2>2 DEF CancellationTypeOK, NoneMissed
  <2>8. OneCanceller'
    BY <2>1 DEF CancellationTypeOK, OneCanceller
  <2> QED BY <2>3, <2>4, <2>5, <2>6, <2>7, <2>8
<1>5. CASE \/ InvokeNext(k) /\ moved[k] # <<>> /\ invoked[Head(moved[k])]
           \/ CallbackReturns(k)
  <2>1. /\ moved[k] # <<>> /\ invoked[Head(moved[k])] /\ kpc[k] \in {"next", "calling"}
        /\ moved' = [moved EXCEPT ![k] = Tail(moved[k])]
        /\ kpc' = [kpc EXCEPT ![k] = "next"]
        /\ UNCHANGED <<cancelled, callbacks, rpc>>
    BY <1>5 DEF InvokeNext, CallbackReturns, MovedInv, CancellationTypeOK
  <2>2. Head(moved[k]) \in Callbacks /\ Tail(moved[k]) \in Seq(Callbacks)
        /\ ToSet(moved[k]) = ToSet(Tail(moved[k])) \cup {Head(moved[k])}
    BY <2>1, ToSetTail DEF CancellationTypeOK
  <2>3. UNCHANGED runs /\ invoked' \in [Callbacks -> BOOLEAN]
        /\ \A q \in Callbacks : invoked'[q] = invoked[q]
    BY <1>5, <2>1, <2>2, Zenon DEF InvokeNext, CallbackReturns, Enter, CancellationTypeOK
  <2>4. /\ kpc'[k] = "next" /\ moved'[k] = Tail(moved[k])
        /\ \A l \in Cancellers \ {k} : kpc'[l] = kpc[l] /\ moved'[l] = moved[l] /\ ~HasList(l)
    BY <2>1 DEF CancellationTypeOK, OneCanceller, HasList
  <2>5. CancellationTypeOK'
    BY <2>1, <2>2, <2>3 DEF CancellationTypeOK, CancelPoints
  <2>6. MovedInv'
    BY <2>1, <2>2, <2>4 DEF MovedInv, HasList
  <2>7. (RunsAtMostOnce /\ WithdrawnNeverRuns)'
    BY <2>1, <2>3 DEF RunsAtMostOnce, WithdrawnNeverRuns
  <2>8. NoneMissed'
    BY <2>1, <2>2, <2>3, <2>4 DEF NoneMissed, RunsAtMostOnce, HasList
  <2>9. OneCanceller'
    BY <2>1 DEF CancellationTypeOK, OneCanceller
  <2> QED BY <2>5, <2>6, <2>7, <2>8, <2>9
<1> QED
  BY <1>1, <1>2, <1>3, <1>4, <1>5 DEF CancelStep, InvokeNext

-----------------------------------------------------------------------------
(* CancellationInvariant is inductive.                                     *)
LEMMA CancellationStep ==
  CancellationInvariant /\ [CancellationNext]_cancellationVars => CancellationInvariant'
<1> SUFFICES ASSUME CancellationInvariant, [CancellationNext]_cancellationVars
             PROVE  CancellationInvariant'
  OBVIOUS
<1>1. CASE UNCHANGED cancellationVars
  BY <1>1 DEF cancellationVars, CancellationInvariant, CancellationTypeOK, MovedInv, HasList,
              RunsAtMostOnce, WithdrawnNeverRuns, NoneMissed, OneCanceller
<1>2. CASE CancellationNext
  BY <1>2, OwnerKeepsList, CancellerKeepsList DEF CancellationNext, OwnerStep
<1> QED BY <1>1, <1>2

(* The cancellation_state by itself: whoever registers, withdraws and      *)
(* cancels, every callback runs at most once, none that was withdrawn runs *)
(* and none that was registered is missed.                                 *)
THEOREM CancellationIsSafe == CancellationSpec => []CancellationInvariant
BY CancellationStarts, CancellationStep, PTL DEF CancellationSpec

-----------------------------------------------------------------------------
(* Only requests with a token register a callback.                         *)
RegistersToken ==
  /\ thread \in [Jobs -> {"none", "register", "submit", "notify"}]
  /\ \A j \in Jobs : thread[j] = "register" => j \in Callbacks

LEMMA RegistersTokenStep == RegistersToken /\ [Next]_vars => RegistersToken'
<1> SUFFICES ASSUME RegistersToken, [Next]_vars PROVE RegistersToken'
  OBVIOUS
<1> USE DEF RegistersToken
<1>1. ASSUME NEW j \in Jobs, Resolve(j) PROVE RegistersToken'
  BY <1>1 DEF Resolve, ThreadGoto
<1>2. ASSUME NEW j \in Jobs, RegisterJob(j) PROVE RegistersToken'
  BY <1>2 DEF RegisterJob, ThreadGoto
<1>3. ASSUME NEW j \in Jobs, Submit(j) \/ NotifyWorker(j) PROVE RegistersToken'
  BY <1>3 DEF Submit, NotifyWorker, ThreadGoto
<1>4. ASSUME NEW j \in Jobs, CallbackBody(j) \/ Destroy(j) PROVE UNCHANGED thread
  BY <1>4 DEF CallbackBody, CallbackClaim, CallbackEnqueue, Destroy, awaiterVars
<1>5. CASE WorkerStep \/ SpuriousWakeup \/ LoopResume \/ Stop \/ StopStep
  BY <1>5 DEF WorkerStep, WorkerTake, WorkerLook, WorkerPublish, WorkerEnqueue, SpuriousWakeup,
              LoopResume, Stop, StopStep, awaiterVars
<1>6. ASSUME UNCHANGED resolverVars PROVE UNCHANGED thread
  BY <1>6 DEF resolverVars, awaiterVars
<1>7. CASE UNCHANGED vars
  BY <1>6, <1>7 DEF vars
<1> QED
  BY <1>1, <1>2, <1>3, <1>4, <1>5, <1>6, <1>7
     DEF Next, AwaiterStep, OtherOwner, OtherOwnerStep, CancellerStep

(* The resolver, its requests and the other users of the token use the     *)
(* cancellation_state as it is meant to be used: every step of theirs is   *)
(* one of its operations, or leaves it alone.                              *)
LEMMA ResolverStepIsCancellationStep ==
  RegistersToken /\ [Next]_vars => [CancellationNext]_cancellationVars
<1> SUFFICES ASSUME RegistersToken, [Next]_vars PROVE [CancellationNext]_cancellationVars
  OBVIOUS
<1>1. ASSUME NEW j \in Jobs,
             Resolve(j) \/ Submit(j) \/ NotifyWorker(j) \/ CallbackBody(j) \/ Destroy(j)
      PROVE  UNCHANGED cancellationVars
  BY <1>1 DEF Resolve, Submit, NotifyWorker, CallbackBody, CallbackClaim, CallbackEnqueue, Destroy
<1>2. ASSUME NEW j \in Jobs, RegisterJob(j) PROVE CancellationNext
  BY <1>2 DEF RegisterJob, RegistersToken, CancellationNext, OwnerStep
<1>3. ASSUME WorkerStep \/ SpuriousWakeup \/ LoopResume \/ Stop \/ StopStep
      PROVE  UNCHANGED cancellationVars
  BY <1>3 DEF WorkerStep, WorkerTake, WorkerLook, WorkerPublish, WorkerEnqueue, SpuriousWakeup,
              LoopResume, Stop, StopStep
<1>4. ASSUME NEW r \in Callbacks, OtherOwner(r) \/ OtherOwnerStep(r) PROVE CancellationNext
  BY <1>4 DEF OtherOwner, OtherOwnerStep, CancellationNext
<1>5. ASSUME NEW k \in Cancellers, RequestCancellation(k) \/ CancellerStep(k)
      PROVE  CancellationNext
  BY <1>5 DEF CancellerStep, CancelStep, CancellationNext
<1>6. CASE UNCHANGED vars
  BY <1>6 DEF vars
<1> QED
  BY <1>1, <1>2, <1>3, <1>4, <1>5, <1>6 DEF Next, AwaiterStep

(* So the cancellation_state is also safe inside the resolver, whose       *)
(* callbacks and requests run between any two of its steps.                *)
THEOREM CancellationIsSafeInResolver == Spec => []CancellationInvariant
<1>1. Init => RegistersToken /\ CancellationInvariant
  BY CancellationStarts DEF Init, RegistersToken
<1>2. (RegistersToken /\ CancellationInvariant) /\ [Next]_vars
        => (RegistersToken /\ CancellationInvariant)'
  BY RegistersTokenStep, ResolverStepIsCancellationStep, CancellationStep
<1> QED BY <1>1, <1>2, PTL DEF Spec

-----------------------------------------------------------------------------
(* Before the first request nothing is queued and the worker waits.        *)
LEMMA ResolverStarts == Init => ResolverInvariant
<1> SUFFICES ASSUME Init PROVE ResolverInvariant
  OBVIOUS
<1> USE DEF Init
<1>1. /\ ToSet(jobs) = {} /\ ToSet(ready) = {} /\ IsInjective(ready)
      /\ jobs \in Seq(Jobs) /\ ready \in Seq(Jobs)
  BY ToSetEmpty DEF IsInjective
<1>2. TypeOK
  BY <1>1 DEF TypeOK, Answers
<1>3. ResumeOnlyWaiting /\ NobodyForgotten /\ WorkerSleepIsJustified /\ AnswerIsTrue
  BY <1>1 DEF ResumeOnlyWaiting, NobodyForgotten, WorkerSleepIsJustified, AnswerIsTrue
<1>4. OneClaim
  BY <1>1, ResolverAssumption DEF OneClaim, Started, CancellationInit
<1> QED BY <1>2, <1>3, <1>4 DEF ResolverInvariant

-----------------------------------------------------------------------------
(* What a step may do to the token's callbacks, as far as requests see it: *)
(* a callback that is to queue its coroutine does not return before it has *)
(* done so, and only a request that has been started is registered.        *)
LEMMA TokenFrame ==
  ASSUME CancellationInvariant, ResolverInvariant, [Next]_vars
  PROVE  /\ \A j \in Jobs : body[j] = "enqueue" /\ Calling(j) => Calling(j)'
         /\ cancelled => cancelled'
         /\ \A j \in Jobs \cap Callbacks : rpc'[j] # "idle" => Started(j)
<1> DEFINE Frame == /\ \A j \in Jobs : body[j] = "enqueue" /\ Calling(j) => Calling(j)'
                    /\ cancelled => cancelled'
                    /\ \A j \in Jobs \cap Callbacks : rpc'[j] # "idle" => Started(j)
<1> USE DEF CancellationInvariant, ResolverInvariant
<1>1. ASSUME UNCHANGED cancellationVars PROVE Frame
  BY <1>1 DEF cancellationVars, Calling, Started
<1>2. ASSUME NEW i \in Jobs, RegisterJob(i) PROVE Frame
  <2>1. /\ i \in Callbacks /\ thread[i] = "register" /\ UNCHANGED <<cancelled, kpc, moved>>
        /\ \A j \in Callbacks \ {i} : rpc'[j] = rpc[j]
        /\ rpc[i] = "calling" => body[i] = "return"
    BY <1>2 DEF RegisterJob, Register, AddCallback, InvokeInline, TypeOK, CancellationTypeOK
  <2>2. \A j \in Jobs \cap Callbacks : rpc'[j] # "idle" => Started(j)
    BY <2>1 DEF Started
  <2>3. ASSUME NEW j \in Jobs, body[j] = "enqueue", Calling(j) PROVE Calling(j)'
    <3>1. j \in Callbacks
      BY <2>3 DEF OneClaim
    <3> QED BY <2>1, <2>3, <3>1 DEF Calling
  <2> QED BY <2>1, <2>2, <2>3
<1>3. ASSUME NEW r \in Callbacks, OtherOwner(r) \/ OtherOwnerStep(r) PROVE Frame
  <2>1. /\ r \notin Jobs /\ UNCHANGED <<cancelled, kpc, moved>>
        /\ \A j \in Callbacks \ {r} : rpc'[j] = rpc[j]
    BY <1>3 DEF OtherOwner, OtherOwnerStep, OwnerStep, Register, Deregister, AddCallback,
                InvokeInline, CancellationTypeOK
  <2>2. \A j \in Jobs \cap Callbacks : rpc'[j] # "idle" => Started(j)
    BY <2>1 DEF Started
  <2>3. ASSUME NEW j \in Jobs, body[j] = "enqueue", Calling(j) PROVE Calling(j)'
    <3>1. j \in Callbacks
      BY <2>3 DEF OneClaim
    <3> QED BY <2>1, <2>3, <3>1 DEF Calling
  <2> QED BY <2>1, <2>2, <2>3
<1>4. ASSUME NEW k \in Cancellers, RequestCancellation(k) \/ CancellerStep(k) PROVE Frame
  <2>1. /\ cancelled => cancelled'
        /\ UNCHANGED rpc
        /\ \A l \in Cancellers \ {k} : kpc'[l] = kpc[l] /\ moved'[l] = moved[l]
    BY <1>4 DEF RequestCancellation, CancellerStep, SwapCallbacks, InvokeNext, CallbackReturns,
                CancellationTypeOK
  <2>2. kpc[k] = "calling" /\ Head(moved[k]) \in Jobs => body[Head(moved[k])] = "return"
    BY <1>4 DEF RequestCancellation, CancellerStep, SwapCallbacks, InvokeNext, CallbackReturns
  <2>3. \A j \in Jobs : body[j] = "enqueue" /\ Calling(j) => Calling(j)'
    BY <2>1, <2>2 DEF Calling
  <2> QED BY <2>1, <2>3 DEF Started
<1>5. ASSUME NEW j \in Jobs,
             Resolve(j) \/ Submit(j) \/ NotifyWorker(j) \/ CallbackBody(j) \/ Destroy(j)
      PROVE  UNCHANGED cancellationVars
  BY <1>5 DEF Resolve, Submit, NotifyWorker, CallbackBody, CallbackClaim, CallbackEnqueue, Destroy
<1>6. ASSUME WorkerStep \/ SpuriousWakeup \/ LoopResume \/ Stop \/ StopStep
      PROVE  UNCHANGED cancellationVars
  BY <1>6 DEF WorkerStep, WorkerTake, WorkerLook, WorkerPublish, WorkerEnqueue, SpuriousWakeup,
              LoopResume, Stop, StopStep
<1>7. ASSUME UNCHANGED vars PROVE Frame
  BY <1>1, <1>7 DEF vars
<1> HIDE DEF Frame
<1>8. ASSUME Next PROVE Frame
  <2>1. ASSUME NEW j \in Jobs, Resolve(j) \/ AwaiterStep(j) \/ CallbackBody(j) \/ Destroy(j)
        PROVE  Frame
    BY <1>1, <1>2, <1>5, <2>1 DEF AwaiterStep
  <2>2. ASSUME WorkerStep \/ SpuriousWakeup \/ LoopResume \/ Stop \/ StopStep PROVE Frame
    BY <1>1, <1>6, <2>2
  <2> QED BY <1>3, <1>4, <1>8, <2>1, <2>2 DEF Next
<1> QED BY <1>7, <1>8 DEF Frame

-----------------------------------------------------------------------------
(* co_await async_resolve(): the request enters as a waiting one that      *)
(* nobody has completed, or throws at once.                                *)
LEMMA ResolveKeepsInvariant ==
  ASSUME CancellationInvariant, ResolverInvariant, NEW j \in Jobs, Resolve(j)
  PROVE  ResolverInvariant'
<1> USE DEF ResolverInvariant
<1>1. /\ place[j] = "idle" /\ ~completed[j] /\ ~Started(j)
      /\ j \notin ToSet(ready) /\ body[j] # "enqueue" /\ ~(wpc = "enqueue" /\ hand = j)
      /\ UNCHANGED <<cancellationVars, completed, answer, body, jobs, wpc, hand, stopping, spc, ready>>
  BY DEF Resolve, OneClaim, ResumeOnlyWaiting, jobVars, workerVars, stopVars
<1>2. CASE j \in Callbacks /\ cancelled
  <2>1. /\ place' = [place EXCEPT ![j] = "resumed"] /\ got' = [got EXCEPT ![j] = "cancelled"]
        /\ UNCHANGED thread
    BY <1>2 DEF Resolve
  <2>2. TypeOK'
    BY <1>1, <2>1 DEF TypeOK, Answers
  <2>3. ResumeOnlyWaiting' /\ WorkerSleepIsJustified'
    BY <1>1, <2>1 DEF ResumeOnlyWaiting, WorkerSleepIsJustified, TypeOK
  <2>4. NobodyForgotten'
    BY <1>1, <2>1 DEF NobodyForgotten, Reachable, Calling, cancellationVars, TypeOK
  <2>5. OneClaim'
    BY <1>1, <2>1 DEF OneClaim, Started, Calling, cancellationVars, TypeOK
  <2>6. AnswerIsTrue'
    BY <1>1, <1>2, <2>1 DEF AnswerIsTrue, cancellationVars, TypeOK
  <2> QED BY <2>2, <2>3, <2>4, <2>5, <2>6
<1>3. CASE ~(j \in Callbacks /\ cancelled)
  <2>1. /\ place' = [place EXCEPT ![j] = "waiting"]
        /\ thread' = [thread EXCEPT ![j] = IF j \in Callbacks THEN "register" ELSE "submit"]
        /\ UNCHANGED got
    BY <1>3 DEF Resolve, ThreadGoto
  <2>2. TypeOK'
    BY <1>1, <2>1 DEF TypeOK
  <2>3. ResumeOnlyWaiting'
    BY <1>1, <2>1 DEF ResumeOnlyWaiting, TypeOK
  <2>4. WorkerSleepIsJustified'
    BY <1>1, <2>1 DEF WorkerSleepIsJustified, TypeOK, Started
  <2>5. NobodyForgotten'
    BY <1>1, <2>1 DEF NobodyForgotten, Reachable, Calling, cancellationVars, TypeOK
  <2>6. OneClaim'
    BY <1>1, <2>1 DEF OneClaim, Started, Calling, cancellationVars, TypeOK
  <2>7. AnswerIsTrue'
    BY <1>1, <2>1 DEF AnswerIsTrue, cancellationVars, TypeOK
  <2> QED BY <2>2, <2>3, <2>4, <2>5, <2>6, <2>7
<1> QED BY <1>2, <1>3

(* The rest of await_suspend(): the job gets its registration and goes to  *)
(* the worker, completed or not.                                           *)
LEMMA AwaiterKeepsInvariant ==
  ASSUME CancellationInvariant, ResolverInvariant, [Next]_vars, NEW j \in Jobs, AwaiterStep(j)
  PROVE  ResolverInvariant'
<1> USE DEF ResolverInvariant
<1>1. /\ \A i \in Jobs : body[i] = "enqueue" /\ Calling(i) => Calling(i)'
      /\ cancelled => cancelled'
      /\ \A i \in Jobs \cap Callbacks : rpc'[i] # "idle" => Started(i)
  BY TokenFrame
<1>2. CASE RegisterJob(j)
  <2>1. /\ thread[j] = "register"
        /\ \E to \in {"submit", "register"} : thread' = [thread EXCEPT ![j] = to]
        /\ UNCHANGED <<place, got, completed, answer, body, jobs, wpc, hand, stopping, spc, ready>>
    BY <1>2 DEF RegisterJob, ThreadGoto, jobVars, workerVars, stopVars
  <2>2. TypeOK'
    BY <2>1 DEF TypeOK
  <2>3. ResumeOnlyWaiting'
    BY <2>1 DEF ResumeOnlyWaiting
  <2>4. WorkerSleepIsJustified'
    BY <2>1 DEF WorkerSleepIsJustified, TypeOK
  <2>5. NobodyForgotten'
    BY <1>1, <2>1 DEF NobodyForgotten, Reachable, TypeOK
  <2>6. \A i \in Jobs : Started(i)' => Started(i)
    BY <1>1, <2>1 DEF Started, TypeOK
  <2>7. OneClaim'
    BY <1>1, <2>1, <2>6 DEF OneClaim
  <2>8. AnswerIsTrue'
    BY <1>1, <2>1 DEF AnswerIsTrue
  <2> QED BY <2>2, <2>3, <2>4, <2>5, <2>7, <2>8
<1>3. CASE Submit(j)
  <2>1. /\ thread[j] = "submit" /\ thread' = [thread EXCEPT ![j] = "notify"]
        /\ jobs' = Append(jobs, j)
        /\ UNCHANGED <<place, got, completed, answer, body, wpc, hand, stopping, spc, ready>>
    BY <1>3 DEF Submit, ThreadGoto, jobVars, stopVars
  <2>2. jobs' \in Seq(Jobs) /\ ToSet(jobs') = ToSet(jobs) \cup {j}
    BY <2>1, ToSetAppend DEF TypeOK
  <2>3. TypeOK'
    BY <2>1, <2>2 DEF TypeOK
  <2>4. ResumeOnlyWaiting'
    BY <2>1 DEF ResumeOnlyWaiting
  <2>5. WorkerSleepIsJustified'
    BY <2>1 DEF WorkerSleepIsJustified, TypeOK
  <2>6. NobodyForgotten'
    BY <1>1, <2>1, <2>2 DEF NobodyForgotten, Reachable, TypeOK
  <2>7. \A i \in Jobs : Started(i)' => Started(i)
    BY <1>1, <2>1, <2>2 DEF Started, TypeOK
  <2>8. OneClaim'
    BY <1>1, <2>1, <2>7 DEF OneClaim
  <2>9. AnswerIsTrue'
    BY <1>1, <2>1 DEF AnswerIsTrue
  <2> QED BY <2>3, <2>4, <2>5, <2>6, <2>8, <2>9
<1>4. CASE NotifyWorker(j)
  <2>1. /\ thread[j] = "notify" /\ thread' = [thread EXCEPT ![j] = "none"]
        /\ wpc' = IF wpc = "asleep" THEN "wait" ELSE wpc
        /\ UNCHANGED <<place, got, completed, answer, body, jobs, hand, stopping, spc, ready>>
    BY <1>4 DEF NotifyWorker, ThreadGoto, jobVars, stopVars
  <2>2. TypeOK'
    BY <2>1 DEF TypeOK
  <2>3. ResumeOnlyWaiting'
    BY <2>1 DEF ResumeOnlyWaiting
  <2>4. WorkerSleepIsJustified'
    BY <2>1 DEF WorkerSleepIsJustified
  <2>5. NobodyForgotten'
    BY <1>1, <2>1 DEF NobodyForgotten, Reachable, TypeOK
  <2>6. \A i \in Jobs : Started(i)' => Started(i)
    BY <1>1, <2>1 DEF Started, TypeOK
  <2>7. OneClaim'
    BY <1>1, <2>1, <2>6 DEF OneClaim
  <2>8. AnswerIsTrue'
    BY <1>1, <2>1 DEF AnswerIsTrue
  <2> QED BY <2>2, <2>3, <2>4, <2>5, <2>7, <2>8
<1> QED BY <1>2, <1>3, <1>4 DEF AwaiterStep

-----------------------------------------------------------------------------
(* A callback that is running belongs to a request that was started, and   *)
(* its token is cancelled.                                                 *)
LEMMA CallingMeansStarted ==
  ASSUME CancellationInvariant, NEW j \in Jobs \cap Callbacks, Calling(j)
  PROVE  Started(j) /\ cancelled
<1> USE DEF CancellationInvariant
<1>1. CASE rpc[j] = "calling"
  BY <1>1 DEF Started, OneCanceller
<1>2. ASSUME NEW k \in Cancellers, kpc[k] = "calling", Head(moved[k]) = j
      PROVE  Started(j) /\ cancelled
  <2>1. moved[k] \in Seq(Callbacks) /\ moved[k] # <<>>
    BY <1>2 DEF CancellationTypeOK, MovedInv
  <2>2. j \in ToSet(moved[k])
    BY <1>2, <2>1, ToSetTail
  <2> QED BY <1>2, <2>2 DEF MovedInv, Started, OneCanceller
<1> QED BY <1>1, <1>2 DEF Calling

(* The callback: whoever finds completed unset is the only one to queue    *)
(* the coroutine.                                                          *)
LEMMA CallbackKeepsInvariant ==
  ASSUME CancellationInvariant, ResolverInvariant, NEW j \in Jobs, CallbackBody(j)
  PROVE  ResolverInvariant'
<1> USE DEF ResolverInvariant
<1>1. CASE CallbackClaim(j) /\ completed[j]
  <2>1. /\ j \in Callbacks /\ body[j] = "claim" /\ body' = [body EXCEPT ![j] = "return"]
        /\ UNCHANGED <<cancellationVars, place, thread, got, completed, answer, jobs, wpc, hand,
                       stopping, spc, ready>>
    BY <1>1 DEF CallbackClaim, awaiterVars, workerVars, stopVars
  <2>2. TypeOK' /\ ResumeOnlyWaiting' /\ WorkerSleepIsJustified' /\ AnswerIsTrue'
    BY <2>1 DEF TypeOK, ResumeOnlyWaiting, WorkerSleepIsJustified, AnswerIsTrue, cancellationVars
  <2>3. NobodyForgotten'
    BY <2>1 DEF NobodyForgotten, Reachable, Calling, cancellationVars, TypeOK
  <2>4. OneClaim'
    BY <2>1 DEF OneClaim, Started, Calling, cancellationVars, TypeOK
  <2> QED BY <2>2, <2>3, <2>4
<1>2. CASE CallbackClaim(j) /\ ~completed[j]
  <2>1. /\ j \in Callbacks /\ body[j] = "claim" /\ Calling(j)
        /\ completed' = [completed EXCEPT ![j] = TRUE]
        /\ answer' = [answer EXCEPT ![j] = "cancelled"]
        /\ body' = [body EXCEPT ![j] = "enqueue"]
        /\ UNCHANGED <<cancellationVars, place, thread, got, jobs, wpc, hand, stopping, spc, ready>>
    BY <1>2 DEF CallbackClaim, awaiterVars, workerVars, stopVars
  <2>2. cancelled /\ place[j] = "waiting"
    BY <1>2, <2>1, CallingMeansStarted DEF OneClaim
  <2>3. j \notin ToSet(ready) /\ ~(wpc = "enqueue" /\ hand = j)
    BY <1>2 DEF ResumeOnlyWaiting, OneClaim
  <2>4. TypeOK'
    BY <2>1 DEF TypeOK, Answers
  <2>5. ResumeOnlyWaiting' /\ WorkerSleepIsJustified'
    BY <2>1 DEF ResumeOnlyWaiting, WorkerSleepIsJustified, TypeOK
  <2>6. Calling(j)' /\ \A i \in Jobs : Calling(i)' = Calling(i) /\ Started(i)' = Started(i)
    BY <2>1 DEF Calling, Started, cancellationVars
  <2>7. NobodyForgotten'
    BY <2>1, <2>6 DEF NobodyForgotten, Reachable, TypeOK
  <2>8. OneClaim'
    BY <2>1, <2>2, <2>3, <2>6 DEF OneClaim, TypeOK
  <2>9. AnswerIsTrue'
    BY <2>1, <2>2 DEF AnswerIsTrue, TypeOK, cancellationVars
  <2> QED BY <2>4, <2>5, <2>7, <2>8, <2>9
<1>3. CASE CallbackEnqueue(j)
  <2>1. /\ body[j] = "enqueue" /\ ready' = Append(ready, j)
        /\ body' = [body EXCEPT ![j] = "return"]
        /\ UNCHANGED <<cancellationVars, place, thread, got, completed, answer, jobs, wpc, hand,
                       stopping, spc>>
    BY <1>3 DEF CallbackEnqueue, EnqueueReady, awaiterVars, workerVars, stopVars
  <2>2. /\ completed[j] /\ place[j] = "waiting" /\ j \notin ToSet(ready)
        /\ ~(wpc = "enqueue" /\ hand = j) /\ j \in Callbacks
    BY <2>1 DEF OneClaim
  <2>3. /\ ready' \in Seq(Jobs) /\ IsInjective(ready')
        /\ ToSet(ready') = ToSet(ready) \cup {j}
    BY <2>1, <2>2, ToSetAppend, InjectiveAppend DEF TypeOK, ResumeOnlyWaiting
  <2>4. TypeOK'
    BY <2>1, <2>3 DEF TypeOK
  <2>5. ResumeOnlyWaiting' /\ WorkerSleepIsJustified' /\ AnswerIsTrue'
    BY <2>1, <2>2, <2>3 DEF ResumeOnlyWaiting, WorkerSleepIsJustified, AnswerIsTrue, cancellationVars
  <2>6. \A i \in Jobs : Calling(i)' = Calling(i) /\ Started(i)' = Started(i)
    BY <2>1 DEF Calling, Started, cancellationVars
  <2>7. NobodyForgotten'
    BY <2>1, <2>3, <2>6 DEF NobodyForgotten, Reachable, TypeOK
  <2>8. OneClaim'
    BY <2>1, <2>2, <2>3, <2>6 DEF OneClaim, TypeOK
  <2> QED BY <2>4, <2>5, <2>7, <2>8
<1> QED BY <1>1, <1>2, <1>3 DEF CallbackBody

-----------------------------------------------------------------------------
(* The worker: it takes each job once, answers it if nobody has, and does  *)
(* not sleep through a submission or the end.                              *)
LEMMA WorkerKeepsInvariant ==
  ASSUME CancellationInvariant, ResolverInvariant, WorkerStep
  PROVE  ResolverInvariant'
<1> USE DEF ResolverInvariant
<1>1. CASE WorkerTake /\ jobs # <<>>
  <2>1. /\ wpc = "wait" /\ wpc' = "look" /\ hand' = Head(jobs) /\ jobs' = Tail(jobs)
        /\ UNCHANGED <<cancellationVars, place, thread, got, completed, answer, body,
                       stopping, spc, ready>>
    BY <1>1 DEF WorkerTake, awaiterVars, jobVars, stopVars
  <2>2. /\ hand' \in Jobs /\ jobs' \in Seq(Jobs)
        /\ ToSet(jobs) = ToSet(jobs') \cup {hand'}
    BY <1>1, <2>1, ToSetTail DEF TypeOK
  <2>3. hand = NoJob
    BY <2>1 DEF TypeOK
  <2>4. TypeOK'
    BY <2>1, <2>2 DEF TypeOK
  <2>5. ResumeOnlyWaiting' /\ WorkerSleepIsJustified' /\ AnswerIsTrue'
    BY <2>1 DEF ResumeOnlyWaiting, WorkerSleepIsJustified, AnswerIsTrue, cancellationVars
  <2>6. \A i \in Jobs : Calling(i)' = Calling(i) /\ Started(i)' = Started(i)
    BY <2>1, <2>2, <2>3, ResolverAssumption DEF Calling, Started, cancellationVars
  <2>7. NobodyForgotten'
    BY <2>1, <2>2, <2>6 DEF NobodyForgotten, Reachable
  <2>8. OneClaim'
    BY <2>1, <2>6 DEF OneClaim
  <2> QED BY <2>4, <2>5, <2>7, <2>8
<1>2. CASE WorkerTake /\ jobs = <<>>
  <2>1. /\ wpc = "wait" /\ wpc' = (IF stopping THEN "exited" ELSE "asleep")
        /\ UNCHANGED <<cancellationVars, place, thread, got, completed, answer, body, jobs, hand,
                       stopping, spc, ready>>
    BY <1>2 DEF WorkerTake, awaiterVars, jobVars, stopVars
  <2>2. TypeOK' /\ ResumeOnlyWaiting' /\ AnswerIsTrue'
    BY <2>1 DEF TypeOK, ResumeOnlyWaiting, AnswerIsTrue, cancellationVars
  <2>3. WorkerSleepIsJustified'
    BY <1>2, <2>1 DEF WorkerSleepIsJustified
  <2>4. \A i \in Jobs : Calling(i)' = Calling(i) /\ Started(i)' = Started(i)
    BY <2>1 DEF Calling, Started, cancellationVars
  <2>5. NobodyForgotten' /\ OneClaim'
    BY <2>1, <2>4 DEF NobodyForgotten, Reachable, OneClaim
  <2> QED BY <2>2, <2>3, <2>5
<1>3. CASE (WorkerLook \/ WorkerPublish) /\ completed[hand]
  <2>1. /\ wpc \in {"look", "resolve"} /\ wpc' = "wait" /\ hand' = NoJob
        /\ UNCHANGED <<cancellationVars, place, thread, got, completed, answer, body, jobs,
                       stopping, spc, ready>>
    BY <1>3 DEF WorkerLook, WorkerPublish, WorkerGoto, awaiterVars, jobVars, stopVars
  <2>2. TypeOK' /\ ResumeOnlyWaiting' /\ WorkerSleepIsJustified' /\ AnswerIsTrue'
    BY <2>1 DEF TypeOK, ResumeOnlyWaiting, WorkerSleepIsJustified, AnswerIsTrue, cancellationVars
  <2>3. \A i \in Jobs : Calling(i)' = Calling(i) /\ (Started(i)' => Started(i))
    BY <2>1, ResolverAssumption DEF Calling, Started, cancellationVars
  <2>4. NobodyForgotten'
    BY <1>3, <2>1, <2>3 DEF NobodyForgotten, Reachable
  <2>5. OneClaim'
    BY <2>1, <2>3 DEF OneClaim
  <2> QED BY <2>2, <2>4, <2>5
<1>4. CASE WorkerLook /\ ~completed[hand]
  <2>1. /\ wpc = "look" /\ wpc' = "resolve"
        /\ UNCHANGED <<cancellationVars, place, thread, got, completed, answer, body, jobs, hand,
                       stopping, spc, ready>>
    BY <1>4 DEF WorkerLook, WorkerGoto, awaiterVars, jobVars, stopVars
  <2>2. TypeOK' /\ ResumeOnlyWaiting' /\ WorkerSleepIsJustified' /\ AnswerIsTrue'
    BY <2>1 DEF TypeOK, ResumeOnlyWaiting, WorkerSleepIsJustified, AnswerIsTrue, cancellationVars
  <2>3. \A i \in Jobs : Calling(i)' = Calling(i) /\ Started(i)' = Started(i)
    BY <2>1 DEF Calling, Started, cancellationVars
  <2>4. NobodyForgotten' /\ OneClaim'
    BY <2>1, <2>3 DEF NobodyForgotten, Reachable, OneClaim
  <2> QED BY <2>2, <2>4
<1>5. CASE WorkerPublish /\ ~completed[hand]
  <2>1. /\ wpc = "resolve" /\ wpc' = "enqueue" /\ hand \in Jobs
        /\ completed' = [completed EXCEPT ![hand] = TRUE]
        /\ answer' = [answer EXCEPT ![hand] = "resolved"]
        /\ UNCHANGED <<cancellationVars, place, thread, got, body, jobs, hand, stopping, spc, ready>>
    BY <1>5 DEF WorkerPublish, WorkerGoto, awaiterVars, stopVars, TypeOK
  <2>2. place[hand] = "waiting" /\ hand \notin ToSet(ready) /\ body[hand] # "enqueue"
    BY <1>5, <2>1 DEF OneClaim, Started, ResumeOnlyWaiting
  <2>3. TypeOK'
    BY <2>1 DEF TypeOK, Answers
  <2>4. ResumeOnlyWaiting' /\ WorkerSleepIsJustified'
    BY <2>1 DEF ResumeOnlyWaiting, WorkerSleepIsJustified, TypeOK
  <2>5. \A i \in Jobs : Calling(i)' = Calling(i) /\ Started(i)' = Started(i)
    BY <2>1 DEF Calling, Started, cancellationVars
  <2>6. NobodyForgotten'
    BY <2>1, <2>5 DEF NobodyForgotten, Reachable, TypeOK
  <2>7. OneClaim'
    BY <2>1, <2>2, <2>5 DEF OneClaim, TypeOK
  <2>8. AnswerIsTrue'
    BY <2>1 DEF AnswerIsTrue, TypeOK, cancellationVars
  <2> QED BY <2>3, <2>4, <2>6, <2>7, <2>8
<1>6. CASE WorkerEnqueue
  <2>1. /\ wpc = "enqueue" /\ wpc' = "wait" /\ hand' = NoJob /\ hand \in Jobs
        /\ ready' = Append(ready, hand)
        /\ UNCHANGED <<cancellationVars, place, thread, got, completed, answer, body, jobs,
                       stopping, spc>>
    BY <1>6 DEF WorkerEnqueue, WorkerGoto, EnqueueReady, awaiterVars, jobVars, stopVars, TypeOK
  <2>2. completed[hand] /\ place[hand] = "waiting" /\ hand \notin ToSet(ready) /\ body[hand] # "enqueue"
    BY <2>1 DEF OneClaim
  <2>3. /\ ready' \in Seq(Jobs) /\ IsInjective(ready')
        /\ ToSet(ready') = ToSet(ready) \cup {hand}
    BY <2>1, <2>2, ToSetAppend, InjectiveAppend DEF TypeOK, ResumeOnlyWaiting
  <2>4. TypeOK'
    BY <2>1, <2>3 DEF TypeOK
  <2>5. ResumeOnlyWaiting' /\ WorkerSleepIsJustified' /\ AnswerIsTrue'
    BY <2>1, <2>2, <2>3 DEF ResumeOnlyWaiting, WorkerSleepIsJustified, AnswerIsTrue, cancellationVars
  <2>6. \A i \in Jobs : Calling(i)' = Calling(i) /\ (Started(i)' => Started(i))
    BY <2>1, ResolverAssumption DEF Calling, Started, cancellationVars
  <2>7. NobodyForgotten'
    BY <2>1, <2>3, <2>6 DEF NobodyForgotten, Reachable
  <2>8. OneClaim'
    BY <2>1, <2>2, <2>3, <2>6 DEF OneClaim
  <2> QED BY <2>4, <2>5, <2>7, <2>8
<1> QED BY <1>1, <1>2, <1>3, <1>4, <1>5, <1>6 DEF WorkerStep, WorkerTake, WorkerLook, WorkerPublish

-----------------------------------------------------------------------------
(* The loop resumes a coroutine that waits, whose request has an answer.   *)
LEMMA LoopKeepsInvariant ==
  ASSUME CancellationInvariant, ResolverInvariant, LoopResume
  PROVE  ResolverInvariant'
<1> USE DEF ResolverInvariant
<1> DEFINE j == Head(ready)
<1>1. /\ j \in Jobs /\ ready' \in Seq(Jobs) /\ IsInjective(ready')
      /\ j \in ToSet(ready) /\ ToSet(ready') = ToSet(ready) \ {j}
  BY ToSetTail, InjectiveTail DEF LoopResume, TypeOK, ResumeOnlyWaiting
<1> HIDE DEF j
<1>2. /\ got' = [got EXCEPT ![j] = answer[j]]
      /\ place' = [place EXCEPT ![j] = "resumed"]
      /\ UNCHANGED <<cancellationVars, thread, completed, answer, body, jobs, wpc, hand, stopping, spc>>
  BY DEF LoopResume, jobVars, workerVars, stopVars, j
<1>3. completed[j] /\ place[j] = "waiting"
  BY <1>1 DEF ResumeOnlyWaiting
<1>4. TypeOK'
  BY <1>1, <1>2 DEF TypeOK
<1>5. ResumeOnlyWaiting'
  BY <1>1, <1>2, <1>3 DEF ResumeOnlyWaiting, TypeOK
<1>6. WorkerSleepIsJustified' /\ AnswerIsTrue'
  BY <1>2, <1>3 DEF WorkerSleepIsJustified, AnswerIsTrue, TypeOK, cancellationVars
<1>7. \A i \in Jobs : Calling(i)' = Calling(i) /\ Started(i)' = Started(i)
  BY <1>2 DEF Calling, Started, cancellationVars
<1>8. NobodyForgotten'
  BY <1>1, <1>2, <1>7 DEF NobodyForgotten, Reachable, TypeOK
<1>9. OneClaim'
  BY <1>1, <1>2, <1>3, <1>7 DEF OneClaim, TypeOK
<1> QED BY <1>4, <1>5, <1>6, <1>8, <1>9

(* The destructor of a waiting operation claims the request, and nobody    *)
(* queues the coroutine any more.                                          *)
LEMMA DestroyKeepsInvariant ==
  ASSUME CancellationInvariant, ResolverInvariant, NEW j \in Jobs, Destroy(j)
  PROVE  ResolverInvariant'
<1> USE DEF ResolverInvariant
<1>1. /\ place[j] = "waiting" /\ thread[j] = "none" /\ ~completed[j]
      /\ place' = [place EXCEPT ![j] = "destroyed"]
      /\ completed' = [completed EXCEPT ![j] = TRUE]
      /\ answer' = [answer EXCEPT ![j] = "cancelled"]
      /\ UNCHANGED <<cancellationVars, thread, got, body, jobs, wpc, hand, stopping, spc, ready>>
  BY DEF Destroy, workerVars, stopVars
<1>2. j \notin ToSet(ready) /\ body[j] # "enqueue" /\ ~(wpc = "enqueue" /\ hand = j)
  BY <1>1 DEF ResumeOnlyWaiting, OneClaim
<1>3. TypeOK'
  BY <1>1 DEF TypeOK, Answers
<1>4. ResumeOnlyWaiting' /\ WorkerSleepIsJustified'
  BY <1>1, <1>2 DEF ResumeOnlyWaiting, WorkerSleepIsJustified, TypeOK
<1>5. AnswerIsTrue'
  BY <1>1 DEF AnswerIsTrue, TypeOK, cancellationVars
<1>6. \A i \in Jobs : Calling(i)' = Calling(i) /\ Started(i)' = Started(i)
  BY <1>1 DEF Calling, Started, cancellationVars
<1>7. NobodyForgotten'
  BY <1>1, <1>2, <1>6 DEF NobodyForgotten, Reachable, TypeOK
<1>8. OneClaim'
  BY <1>1, <1>2, <1>6 DEF OneClaim, TypeOK
<1> QED BY <1>3, <1>4, <1>5, <1>7, <1>8

(* Waking the worker and stopping the resolver touch no request.           *)
LEMMA StopKeepsInvariant ==
  ASSUME CancellationInvariant, ResolverInvariant, SpuriousWakeup \/ Stop \/ StopStep
  PROVE  ResolverInvariant'
<1> USE DEF ResolverInvariant
<1>1. UNCHANGED <<cancellationVars, place, thread, got, completed, answer, body, jobs, hand, ready>>
  BY DEF SpuriousWakeup, Stop, StopStep, awaiterVars, jobVars, workerVars
<1>2. wpc' = wpc \/ (wpc = "asleep" /\ wpc' = "wait")
  BY DEF SpuriousWakeup, Stop, StopStep, workerVars
<1>3. stopping' \in BOOLEAN /\ spc' \in {"idle", "notify", "join", "done"}
  BY DEF SpuriousWakeup, Stop, StopStep, stopVars, TypeOK
<1>4. TypeOK'
  BY <1>1, <1>2, <1>3 DEF TypeOK
<1>5. ResumeOnlyWaiting' /\ AnswerIsTrue'
  BY <1>1 DEF ResumeOnlyWaiting, AnswerIsTrue, cancellationVars
<1>6. WorkerSleepIsJustified'
  BY <1>1 DEF WorkerSleepIsJustified, SpuriousWakeup, Stop, StopStep, stopVars, workerVars
<1>7. \A i \in Jobs : Calling(i)' = Calling(i) /\ Started(i)' = Started(i)
  BY <1>1 DEF Calling, Started, cancellationVars
<1>8. NobodyForgotten' /\ OneClaim'
  BY <1>1, <1>2, <1>7 DEF NobodyForgotten, Reachable, OneClaim
<1> QED BY <1>4, <1>5, <1>6, <1>8

(* Nor do the token's other users and its cancellers.                      *)
LEMMA TokenKeepsInvariant ==
  ASSUME CancellationInvariant, ResolverInvariant, [Next]_vars, UNCHANGED resolverVars
  PROVE  ResolverInvariant'
<1> USE DEF ResolverInvariant
<1>1. /\ \A i \in Jobs : body[i] = "enqueue" /\ Calling(i) => Calling(i)'
      /\ cancelled => cancelled'
      /\ \A i \in Jobs \cap Callbacks : rpc'[i] # "idle" => Started(i)
  BY TokenFrame
<1>2. UNCHANGED <<place, thread, got, completed, answer, body, jobs, wpc, hand, stopping, spc, ready>>
  BY DEF resolverVars, awaiterVars, jobVars, workerVars, stopVars
<1>3. TypeOK' /\ ResumeOnlyWaiting' /\ WorkerSleepIsJustified'
  BY <1>2 DEF TypeOK, ResumeOnlyWaiting, WorkerSleepIsJustified
<1>4. NobodyForgotten'
  BY <1>1, <1>2 DEF NobodyForgotten, Reachable
<1>5. \A i \in Jobs : Started(i)' => Started(i)
  BY <1>1, <1>2 DEF Started
<1>6. OneClaim'
  BY <1>1, <1>2, <1>5 DEF OneClaim
<1>7. AnswerIsTrue'
  BY <1>1, <1>2 DEF AnswerIsTrue
<1> QED BY <1>3, <1>4, <1>6, <1>7

-----------------------------------------------------------------------------
(* Every step of requests, worker, cancellers and loop keeps the           *)
(* invariant.                                                              *)
LEMMA ResolverStep ==
  CancellationInvariant /\ ResolverInvariant /\ [Next]_vars => ResolverInvariant'
<1> SUFFICES ASSUME CancellationInvariant, ResolverInvariant, [Next]_vars PROVE ResolverInvariant'
  OBVIOUS
<1>1. ASSUME NEW j \in Jobs, Resolve(j) \/ AwaiterStep(j) \/ CallbackBody(j) \/ Destroy(j)
      PROVE  ResolverInvariant'
  BY <1>1, ResolveKeepsInvariant, AwaiterKeepsInvariant, CallbackKeepsInvariant,
     DestroyKeepsInvariant
<1>2. ASSUME WorkerStep \/ SpuriousWakeup \/ LoopResume \/ Stop \/ StopStep
      PROVE  ResolverInvariant'
  BY <1>2, WorkerKeepsInvariant, LoopKeepsInvariant, StopKeepsInvariant
<1>3. ASSUME NEW r \in Callbacks, OtherOwner(r) \/ OtherOwnerStep(r) PROVE ResolverInvariant'
  BY <1>3, TokenKeepsInvariant DEF OtherOwner, OtherOwnerStep
<1>4. ASSUME NEW k \in Cancellers,
             (RequestCancellation(k) /\ UNCHANGED resolverVars) \/ CancellerStep(k)
      PROVE  ResolverInvariant'
  BY <1>4, TokenKeepsInvariant DEF CancellerStep
<1>5. ASSUME UNCHANGED vars PROVE ResolverInvariant'
  BY <1>5, TokenKeepsInvariant DEF vars
<1> QED BY <1>1, <1>2, <1>3, <1>4, <1>5 DEF Next

(* A request is always waiting in the right place: its coroutine is queued *)
(* once, by the one who completed it, nobody is forgotten, and the worker  *)
(* does not sleep through a job or the end.                                *)
THEOREM ResolverIsSafe == Spec => []ResolverInvariant
<1>1. Init => ResolverInvariant
  BY ResolverStarts
<1> QED BY <1>1, CancellationIsSafeInResolver, ResolverStep, PTL DEF Spec

-----------------------------------------------------------------------------
(* What a step may do to answers, and to what callers are given.           *)
LEMMA AnswerStep ==
  ASSUME CancellationInvariant, ResolverInvariant, [Next]_vars, NEW j \in Jobs
  PROVE  /\ completed[j] => completed'[j] /\ answer'[j] = answer[j]
         /\ got'[j] # got[j] =>
              IF got'[j] = "cancelled" THEN cancelled /\ j \in Callbacks
                                       ELSE got'[j] = answer[j] /\ answer[j] # "none"
<1> DEFINE Stands == completed[j] => completed'[j] /\ answer'[j] = answer[j]
           Given  == got'[j] # got[j] =>
                       IF got'[j] = "cancelled" THEN cancelled /\ j \in Callbacks
                                                ELSE got'[j] = answer[j] /\ answer[j] # "none"
<1> USE DEF ResolverInvariant
<1>1. ASSUME NEW i \in Jobs, Resolve(i) PROVE Stands /\ Given
  BY <1>1 DEF Resolve, jobVars, TypeOK
<1>2. ASSUME NEW i \in Jobs, AwaiterStep(i) PROVE Stands /\ Given
  BY <1>2 DEF AwaiterStep, RegisterJob, Submit, NotifyWorker, jobVars
<1>3. ASSUME NEW i \in Jobs, CallbackBody(i) \/ Destroy(i) PROVE Stands /\ Given
  BY <1>3 DEF CallbackBody, CallbackClaim, CallbackEnqueue, Destroy, awaiterVars, TypeOK
<1>4. ASSUME WorkerStep \/ SpuriousWakeup \/ Stop \/ StopStep PROVE Stands /\ Given
  BY <1>4 DEF WorkerStep, WorkerTake, WorkerLook, WorkerPublish, WorkerEnqueue, SpuriousWakeup,
              Stop, StopStep, awaiterVars, jobVars, TypeOK
<1>5. ASSUME LoopResume PROVE Stands /\ Given
  <2> DEFINE i == Head(ready)
  <2>1. i \in Jobs /\ i \in ToSet(ready)
    BY <1>5, ToSetTail DEF LoopResume, TypeOK
  <2> HIDE DEF i
  <2>2. got' = [got EXCEPT ![i] = answer[i]] /\ UNCHANGED <<completed, answer>>
    BY <1>5 DEF LoopResume, jobVars, i
  <2>3. place[i] = "waiting" /\ answer[i] # "none"
    BY <2>1 DEF ResumeOnlyWaiting, AnswerIsTrue
  <2> QED BY <2>1, <2>2, <2>3 DEF AnswerIsTrue, TypeOK
<1>6. ASSUME UNCHANGED resolverVars PROVE Stands /\ Given
  BY <1>6 DEF resolverVars, awaiterVars, jobVars
<1>7. CASE UNCHANGED vars
  BY <1>6, <1>7 DEF vars
<1> HIDE DEF Stands, Given
<1>8. ASSUME Next PROVE Stands /\ Given
  BY <1>1, <1>2, <1>3, <1>4, <1>5, <1>6, <1>8 DEF Next, OtherOwner, OtherOwnerStep, CancellerStep
<1> QED BY <1>7, <1>8 DEF Stands, Given

(* The first of worker, cancellation and destructor to complete a request  *)
(* decides, whatever the others do later; the caller is given that answer, *)
(* and operation_cancelled only if the token was cancelled.                *)
THEOREM FirstAnswerIsKept == Spec => FirstAnswerStands
<1>1. CancellationInvariant /\ ResolverInvariant /\ [Next]_vars
        => [\A j \in Jobs :
              /\ completed[j] => completed'[j] /\ answer'[j] = answer[j]
              /\ got'[j] # got[j] =>
                   IF got'[j] = "cancelled" THEN cancelled /\ j \in Callbacks
                                            ELSE got'[j] = answer[j] /\ answer[j] # "none"]_vars
  BY AnswerStep
<1> QED BY <1>1, CancellationIsSafeInResolver, ResolverIsSafe, PTL DEF Spec, FirstAnswerStands

-----------------------------------------------------------------------------
(* The offset in the ring of the byte that is i bytes after the first.     *)
Offset(b, i) ==
  IF b.read_index + i < Capacity(b) THEN b.read_index + i ELSE b.read_index + i - Capacity(b)

(* What is stored from the first byte on, and the n offsets after the last *)
(* one: the bytes to read and the room to write.                           *)
Held(b, n) == [i \in 1..n |-> b.storage[Offset(b, i - 1) + 1]]
Room(b, n) == [i \in 1..n |-> Offset(b, b.size + i - 1)]

(* A ring of bytes out of D.                                               *)
IsBuffer(b, D) ==
  /\ b \in [storage : Seq(D), read_index : Nat, size : Nat]
  /\ b.read_index < Len(b.storage) /\ b.size <= Len(b.storage)

(* A function on 1..n is a sequence of length n.                           *)
LEMMA FunctionIsSeq ==
  ASSUME NEW S, NEW n \in Nat, NEW f \in [1..n -> S]
  PROVE  f \in Seq(S) /\ Len(f) = n
<1>1. f \in Seq(S)
  BY SeqDef
<1> QED BY <1>1, LenProperties

(* n offsets from one on.                                                  *)
LEMMA Regions ==
  ASSUME NEW start \in Nat, NEW n \in Nat
  PROVE  /\ Region(start, n) \in Seq(Nat) /\ Len(Region(start, n)) = n
         /\ \A i \in 1..n : Region(start, n)[i] = start + i - 1
<1>1. Region(start, n) \in [1..n -> Nat]
  BY DEF Region
<1> QED BY <1>1, FunctionIsSeq DEF Region

(* Two numbers less than the capacity add up to one less than twice that:  *)
(* the remainder takes off the capacity once or not at all.                *)
LEMMA Remainder ==
  ASSUME NEW c \in Nat, NEW m \in Nat, c > 0, m < 2 * c
  PROVE  m % c = IF m < c THEN m ELSE m - c
  OBVIOUS

(* An offset is one of the storage, and no two are the same.               *)
LEMMA Offsets ==
  ASSUME NEW D, NEW b, IsBuffer(b, D)
  PROVE  /\ Capacity(b) \in Nat \ {0}
         /\ \A i \in Nat : i < Capacity(b) => Offset(b, i) \in 0..(Capacity(b) - 1)
         /\ \A i, j \in Nat : i < Capacity(b) /\ j < Capacity(b) /\ Offset(b, i) = Offset(b, j) => i = j
  BY DEF IsBuffer, Offset, Capacity

(* n offsets in a ring of c bytes, from r on.                              *)
Ring(c, r, n) ==
  [i \in 1..n |-> IF r + (i - 1) < c THEN r + (i - 1) ELSE r + (i - 1) - c]

(* Two regions, up to the end of the storage and from its beginning, are   *)
(* n offsets in a ring.                                                    *)
LEMMA TwoRegions ==
  ASSUME NEW c \in Nat, NEW r \in Nat, NEW n \in Nat, r < c, n <= c,
         NEW f \in Nat, f = IF n <= c - r THEN n ELSE c - r
  PROVE  /\ Region(r, f) \o Region(0, n - f) \in Seq(Nat)
         /\ Region(r, f) \o Region(0, n - f) = Ring(c, r, n)
<1>1. PICK m \in Nat : m = n - f /\ n = f + m
  OBVIOUS
<1> DEFINE s == Region(r, f)
           t == Region(0, m)
           w == [i \in 1..n |-> IF r + (i - 1) < c THEN r + (i - 1) ELSE r + (i - 1) - c]
<1>2. s \in Seq(Nat) /\ Len(s) = f /\ \A i \in 1..f : s[i] = r + i - 1
  BY Regions
<1>3. t \in Seq(Nat) /\ Len(t) = m /\ \A i \in 1..m : t[i] = 0 + i - 1
  BY Regions
<1>4. w \in [1..n -> Nat]
  OBVIOUS
<1>5. w \in Seq(Nat) /\ Len(w) = n
  BY <1>4, FunctionIsSeq
<1> HIDE DEF s, t
<1>6. /\ s \o t \in Seq(Nat) /\ Len(s \o t) = f + m
      /\ \A i \in 1..(f + m) : (s \o t)[i] = IF i <= f THEN s[i] ELSE t[i - f]
  <2>1. /\ s \o t \in Seq(Nat) /\ Len(s \o t) = Len(s) + Len(t)
        /\ \A i \in 1..(Len(s) + Len(t)) : (s \o t)[i] = IF i <= Len(s) THEN s[i] ELSE t[i - Len(s)]
    BY <1>2, <1>3, ConcatProperties, Zenon
  <2> QED BY <1>2, <1>3, <2>1
<1>7. ASSUME NEW i \in 1..n PROVE (s \o t)[i] = w[i]
  <2>1. CASE i <= f
    BY <1>1, <1>2, <1>6, <2>1
  <2>2. CASE ~(i <= f)
    <3>1. i - f \in 1..m
      BY <1>1, <2>2
    <3>2. (s \o t)[i] = i - f - 1
      BY <1>1, <1>3, <1>6, <2>2, <3>1, SMTT(60)
    <3>3. r + (i - 1) >= c /\ r + (i - 1) - c = i - f - 1
      BY <2>2
    <3> QED BY <3>2, <3>3
  <2> QED BY <2>1, <2>2
<1> HIDE DEF w
<1>8. s \o t = w
  BY <1>1, <1>5, <1>6, <1>7, SeqEqual
<1>9. Region(0, n - f) = t
  BY <1>1 DEF t
<1> QED BY <1>6, <1>8, <1>9 DEF s, w, Ring

(* The bytes to read are those from the read index on.                     *)
LEMMA ReadableOffsets ==
  ASSUME NEW D, NEW b, IsBuffer(b, D)
  PROVE  /\ Readable(b) = [i \in 1..b.size |-> Offset(b, i - 1)]
         /\ Content(b) = Held(b, b.size)
<1>1. Capacity(b) \in Nat /\ b.read_index \in Nat /\ b.size \in Nat
      /\ b.read_index < Capacity(b) /\ b.size <= Capacity(b)
  BY DEF IsBuffer, Capacity
<1>2. PICK f \in Nat : /\ f = Least(b.size, Capacity(b) - b.read_index)
                       /\ f = IF b.size <= Capacity(b) - b.read_index THEN b.size
                              ELSE Capacity(b) - b.read_index
  BY <1>1 DEF Least
<1>3. Readable(b) = Region(b.read_index, f) \o Region(0, b.size - f)
  BY <1>2 DEF Readable, ReadableRegions
<1>4. Readable(b) = [i \in 1..b.size |-> Offset(b, i - 1)]
  <2>1. Readable(b) = [i \in 1..b.size |->
          IF b.read_index + (i - 1) < Capacity(b) THEN b.read_index + (i - 1)
          ELSE b.read_index + (i - 1) - Capacity(b)]
    <3> DEFINE c == Capacity(b)
               r == b.read_index
               n == b.size
    <3>1. c \in Nat /\ r \in Nat /\ n \in Nat /\ r < c /\ n <= c /\ f = IF n <= c - r THEN n ELSE c - r
      BY <1>1, <1>2
    <3> HIDE DEF c, r, n
    <3>2. Region(r, f) \o Region(0, n - f) = Ring(c, r, n)
      BY <3>1, TwoRegions
    <3> QED BY <1>3, <3>2 DEF c, r, n, Ring
  <2> QED BY <2>1 DEF Offset
<1>5. Content(b) = Held(b, b.size)
  BY <1>4 DEF Content, BytesAt, Held
<1> QED BY <1>4, <1>5

(* What is held is a sequence of bytes.                                    *)
LEMMA HeldBytes ==
  ASSUME NEW D, NEW b, IsBuffer(b, D), NEW n \in Nat, n <= Capacity(b)
  PROVE  /\ Held(b, n) \in Seq(D) /\ Len(Held(b, n)) = n
         /\ \A i \in 1..n : Held(b, n)[i] = b.storage[Offset(b, i - 1) + 1]
<1>1. b.storage \in Seq(D) /\ Len(b.storage) = Capacity(b)
  BY DEF IsBuffer, Capacity
<1>2. \A i \in 1..n : i - 1 \in Nat /\ i - 1 < Capacity(b)
  BY Offsets
<1>3. \A i \in 1..n : Offset(b, i - 1) + 1 \in 1..Capacity(b)
  BY <1>2, Offsets
<1>4. \A i \in 1..n : b.storage[Offset(b, i - 1) + 1] \in D
  BY <1>1, <1>3
<1>5. Held(b, n) \in [1..n -> D]
  BY <1>4 DEF Held
<1> QED BY <1>5, FunctionIsSeq DEF Held

(* What replaces a storage holds the content at its front, then t.         *)
AtFront(b, t) == [storage |-> Content(b) \o t, read_index |-> 0, size |-> b.size]

(* The content is then the same.                                           *)
LEMMA MovedToFront ==
  ASSUME NEW D, NEW b, IsBuffer(b, D), NEW t \in Seq(D), b.size + Len(t) > 0
  PROVE  /\ IsBuffer(AtFront(b, t), D) /\ Capacity(AtFront(b, t)) = b.size + Len(t)
         /\ AtFront(b, t).size = b.size /\ AtFront(b, t).read_index = 0
         /\ Content(AtFront(b, t)) = Content(b)
<1> DEFINE f == AtFront(b, t)
<1>1. b.size \in Nat /\ b.size <= Capacity(b) /\ Len(t) \in Nat
  BY DEF IsBuffer, Capacity
<1>2. Content(b) \in Seq(D) /\ Len(Content(b)) = b.size
  BY <1>1, ReadableOffsets, HeldBytes
<1>3. /\ Content(b) \o t \in Seq(D) /\ Len(Content(b) \o t) = b.size + Len(t)
      /\ \A i \in 1..b.size : (Content(b) \o t)[i] = Content(b)[i]
  <2>1. /\ Content(b) \o t \in Seq(D) /\ Len(Content(b) \o t) = Len(Content(b)) + Len(t)
        /\ \A i \in 1..(Len(Content(b)) + Len(t)) :
             (Content(b) \o t)[i] = IF i <= Len(Content(b)) THEN Content(b)[i]
                                    ELSE t[i - Len(Content(b))]
    BY <1>2, ConcatProperties, Zenon
  <2> QED BY <1>1, <1>2, <2>1
<1>4. /\ f.storage = Content(b) \o t /\ f.size = b.size /\ f.read_index = 0
      /\ f \in [storage : Seq(D), read_index : Nat, size : Nat]
  BY <1>1, <1>3 DEF AtFront
<1> HIDE DEF f
<1>5. IsBuffer(f, D) /\ Capacity(f) = b.size + Len(t)
  BY <1>1, <1>3, <1>4 DEF IsBuffer, Capacity
<1>6. Content(f) = Held(f, b.size)
  BY <1>4, <1>5, ReadableOffsets
<1>7. ASSUME NEW i \in 1..b.size PROVE Content(f)[i] = Content(b)[i]
  <2>1. Offset(f, i - 1) = i - 1
    BY <1>1, <1>4, <1>5 DEF Offset
  <2>2. Held(f, b.size)[i] = f.storage[i - 1 + 1]
    BY <2>1 DEF Held
  <2>3. i - 1 + 1 = i
    BY <1>1
  <2> QED BY <1>3, <1>4, <1>6, <2>2, <2>3
<1>8. Content(f) \in Seq(D) /\ Len(Content(f)) = b.size
  BY <1>1, <1>4, <1>5, ReadableOffsets, HeldBytes
<1>9. Content(f) = Content(b)
  BY <1>2, <1>7, <1>8, SeqEqual
<1> QED BY <1>4, <1>5, <1>9 DEF f

(* grow_and_linearize() keeps what is to be read.                          *)
LEMMA GrowKeeps ==
  ASSUME NEW D, 0 \in D, NEW b, IsBuffer(b, D), NEW c \in Nat, c > 0, c >= b.size
  PROVE  /\ IsBuffer(GrowAndLinearize(b, c), D) /\ Capacity(GrowAndLinearize(b, c)) = c
         /\ GrowAndLinearize(b, c).size = b.size
         /\ Content(GrowAndLinearize(b, c)) = Content(b)
<1>1. b.size \in Nat
  BY DEF IsBuffer
<1>2. PICK m \in Nat : m = c - b.size /\ b.size + m = c
  BY <1>1
<1>3. ZeroBytes(m) \in [1..m -> D]
  BY DEF ZeroBytes
<1>4. ZeroBytes(m) \in Seq(D) /\ Len(ZeroBytes(m)) = m
  BY <1>3, FunctionIsSeq
<1>5. GrowAndLinearize(b, c) = AtFront(b, ZeroBytes(m))
  BY <1>2 DEF GrowAndLinearize, AtFront
<1> QED BY <1>2, <1>4, <1>5, MovedToFront

(* linearize() too, in the same storage.                                   *)
LEMMA LinearizeKeeps ==
  ASSUME NEW D, NEW b, IsBuffer(b, D)
  PROVE  /\ IsBuffer(Linearize(b), D) /\ Capacity(Linearize(b)) = Capacity(b)
         /\ Linearize(b).size = b.size /\ Linearize(b).read_index = 0
         /\ Content(Linearize(b)) = Content(b)
<1>1. /\ b.size \in Nat /\ b.size <= Capacity(b) /\ Capacity(b) \in Nat \ {0}
      /\ b.storage \in Seq(D) /\ Len(b.storage) = Capacity(b)
      /\ b = [storage |-> b.storage, read_index |-> b.read_index, size |-> b.size]
  BY DEF IsBuffer, Capacity
<1> DEFINE t == SubSeq(b.storage, b.size + 1, Len(b.storage))
<1>2. t \in Seq(D) /\ Len(t) = Capacity(b) - b.size
  <2>1. \A i \in (b.size + 1)..Len(b.storage) : b.storage[i] \in D
    BY <1>1
  <2>2. t \in Seq(D) /\ Len(t) = IF b.size + 1 <= Len(b.storage)
                                   THEN Len(b.storage) - (b.size + 1) + 1 ELSE 0
    BY <1>1, <2>1, SubSeqProperties
  <2> HIDE DEF t
  <2> QED BY <1>1, <2>2
<1>3. Linearize(b) = AtFront(b, t)
  BY <1>1 DEF Linearize, AtFront, Capacity
<1> HIDE DEF t
<1>4. b.size + Len(t) = Capacity(b) /\ b.size + Len(t) > 0
  BY <1>1, <1>2
<1> QED BY <1>2, <1>3, <1>4, MovedToFront

(* Doubling a capacity often enough makes it as large as is asked.         *)
Doublings(F, c, n) == F = [k \in 0..n |-> IF k = 0 THEN c ELSE 2 * F[k - 1]]

(* There are such doublings.                                               *)
LEMMA DoublingsExist ==
  ASSUME NEW c, NEW n \in Nat
  PROVE  \E F : Doublings(F, c, n)
<1> DEFINE Upto(F, m) == /\ F = [k \in 0..m |-> F[k]] /\ F[0] = c
                         /\ \A k \in 1..m : F[k] = 2 * F[k - 1]
           Bad == {m \in 0..n : ~\E F : Upto(F, m)}
<1>1. Bad = {}
  <2> SUFFICES ASSUME Bad # {} PROVE FALSE
    OBVIOUS
  <2>1. PICK m \in Bad : \A l \in Bad : m <= l
    <3>1. Bad \in SUBSET Nat
      OBVIOUS
    <3> HIDE DEF Bad
    <3> QED BY <3>1, LeastNatural
  <2>2. m \in 0..n /\ ~\E F : Upto(F, m)
    OBVIOUS
  <2>3. m # 0
    <3>1. Upto([k \in 0..0 |-> c], 0)
      OBVIOUS
    <3> QED BY <2>2, <3>1
  <2>4. m - 1 \in 0..n /\ ~(m <= m - 1) /\ m \in Nat
    BY <2>3
  <2>5. m - 1 \notin Bad
    BY <2>1, <2>4
  <2>6. PICK F : Upto(F, m - 1)
    BY <2>4, <2>5
  <2> DEFINE G == [k \in 0..m |-> IF k = m THEN 2 * F[m - 1] ELSE F[k]]
  <2>7. Upto(G, m)
    <3>1. G[0] = c /\ G = [k \in 0..m |-> G[k]]
      BY <2>3, <2>4, <2>6
    <3>2. ASSUME NEW k \in 1..m PROVE G[k] = 2 * G[k - 1]
      <4>1. k \in 0..m /\ k - 1 \in 0..m /\ k - 1 # m
        BY <2>4
      <4>2. G[k - 1] = F[k - 1]
        BY <4>1
      <4>3. CASE k = m
        BY <4>1, <4>2, <4>3
      <4>4. CASE k # m
        <5>1. k \in 1..(m - 1)
          BY <2>4, <4>4
        <5> QED BY <2>6, <4>1, <4>2, <4>4, <5>1
      <4> QED BY <4>3, <4>4
    <3> QED BY <3>1, <3>2
  <2> QED BY <2>2, <2>7
<1>2. PICK F : Upto(F, n)
  BY <1>1
<1>3. Doublings(F, c, n)
  <2> DEFINE G == [k \in 0..n |-> IF k = 0 THEN c ELSE 2 * F[k - 1]]
  <2>1. ASSUME NEW k \in 0..n PROVE F[k] = G[k]
    <3>1. k = 0 \/ k \in 1..n
      OBVIOUS
    <3> QED BY <1>2, <3>1
  <2>2. F = [k \in 0..n |-> F[k]]
    BY <1>2
  <2>3. F = G
    BY <2>1, <2>2
  <2> QED BY <2>3 DEF Doublings
<1> QED BY <1>3

(* Each adds one to the capacity at least.                                 *)
LEMMA DoublingsGrow ==
  ASSUME NEW c \in Nat, c > 0, NEW n \in Nat, NEW F, Doublings(F, c, n)
  PROVE  \A k \in 0..n : F[k] \in Nat /\ F[k] >= c + k
<1> DEFINE Bad == {k \in 0..n : ~(F[k] \in Nat /\ F[k] >= c + k)}
<1>1. F[0] = c /\ \A k \in 1..n : F[k] = 2 * F[k - 1]
  BY DEF Doublings
<1>2. Bad = {}
  <2> SUFFICES ASSUME Bad # {} PROVE FALSE
    OBVIOUS
  <2>1. PICK m \in Bad : \A l \in Bad : m <= l
    <3>1. Bad \in SUBSET Nat
      OBVIOUS
    <3> HIDE DEF Bad
    <3> QED BY <3>1, LeastNatural
  <2>2. m \in 1..n /\ m - 1 \in 0..n /\ ~(m <= m - 1)
    BY <1>1
  <2>3. F[m - 1] \in Nat /\ F[m - 1] >= c + (m - 1)
    BY <2>1, <2>2
  <2> QED BY <1>1, <2>2, <2>3
<1> QED BY <1>2

(* ensure_writable() keeps what is to be read and makes room.              *)
LEMMA EnsureKeeps ==
  ASSUME NEW D, 0 \in D, NEW b, IsBuffer(b, D), NEW n \in Nat
  PROVE  /\ IsBuffer(EnsureWritable(b, n), D)
         /\ EnsureWritable(b, n).size + n <= Capacity(EnsureWritable(b, n))
         /\ EnsureWritable(b, n).size = b.size
         /\ Content(EnsureWritable(b, n)) = Content(b)
<1>1. b.size \in Nat /\ b.size <= Capacity(b) /\ Capacity(b) \in Nat /\ Capacity(b) > 0
  BY DEF IsBuffer, Capacity
<1>2. CASE WritableBytes(b) >= n
  BY <1>1, <1>2, SMTT(60) DEF EnsureWritable, WritableBytes
<1>3. CASE ~(WritableBytes(b) >= n)
  <2> DEFINE F == CHOOSE F : F = [k \in 0..n |-> IF k = 0 THEN Capacity(b) ELSE 2 * F[k - 1]]
             fits == {k \in 0..n : F[k] >= b.size + n}
             j == CHOOSE k \in fits : \A l \in fits : k <= l
  <2>1. EnsureWritable(b, n) = GrowAndLinearize(b, F[j])
    BY <1>3 DEF EnsureWritable
  <2>2. Doublings(F, Capacity(b), n)
    BY DoublingsExist DEF Doublings
  <2> HIDE DEF F
  <2>3. \A k \in 0..n : F[k] \in Nat /\ F[k] >= Capacity(b) + k
    BY <1>1, <2>2, DoublingsGrow
  <2>4. n \in fits /\ fits \in SUBSET Nat
    BY <1>1, <2>3
  <2>5. j \in fits
    <3> HIDE DEF fits
    <3>1. \E k \in fits : \A l \in fits : k <= l
      BY <2>4, LeastNatural
    <3> QED BY <3>1
  <2>6. F[j] \in Nat /\ F[j] >= b.size + n /\ F[j] >= b.size /\ F[j] > 0
    BY <1>1, <2>3, <2>5
  <2> HIDE DEF j
  <2> QED BY <1>1, <2>1, <2>6, GrowKeeps
<1> QED BY <1>2, <1>3

(* write_index() is the offset after the last byte.                        *)
LEMMA WriteIndexOffset ==
  ASSUME NEW D, NEW b, IsBuffer(b, D)
  PROVE  WriteIndex(b) = Offset(b, b.size) /\ WriteIndex(b) \in 0..(Capacity(b) - 1)
<1>1. /\ b.size \in Nat /\ b.size <= Capacity(b) /\ Capacity(b) \in Nat
      /\ b.read_index \in Nat /\ b.read_index < Capacity(b)
  BY DEF IsBuffer, Capacity
<1> DEFINE m == b.read_index + b.size
           c == Capacity(b)
<1>2. m \in Nat /\ c \in Nat /\ c > 0 /\ m < 2 * c
  BY <1>1
<1>3. Offset(b, b.size) = IF m < c THEN m ELSE m - c
  BY <1>1, <1>2 DEF Offset
<1>4. WriteIndex(b) = m % c
  BY DEF WriteIndex
<1> HIDE DEF m, c
<1>5. m % c = IF m < c THEN m ELSE m - c
  BY <1>2, Remainder
<1>6. WriteIndex(b) \in 0..(c - 1)
  BY <1>2, <1>4, <1>5
<1> QED BY <1>3, <1>4, <1>5, <1>6 DEF c

(* The span of prepare_contiguous() is the room behind the content.        *)
LEMMA PrepareKeeps ==
  ASSUME NEW D, 0 \in D, NEW b, IsBuffer(b, D), NEW n \in Nat, n > 0
  PROVE  /\ IsBuffer(PrepareContiguous(b, n), D)
         /\ PrepareContiguous(b, n).size = b.size
         /\ b.size + n <= Capacity(PrepareContiguous(b, n))
         /\ Content(PrepareContiguous(b, n)) = Content(b)
         /\ ContiguousSpan(PrepareContiguous(b, n), n) = Room(PrepareContiguous(b, n), n)
<1> DEFINE e == EnsureWritable(b, n)
           p == PrepareContiguous(b, n)
<1>1. /\ IsBuffer(e, D) /\ e.size + n <= Capacity(e) /\ e.size = b.size
      /\ Content(e) = Content(b)
  BY EnsureKeeps
<1>2. p = IF WritableContiguous(e) < n THEN Linearize(e) ELSE e
  BY DEF PrepareContiguous
<1> HIDE DEF e, p
<1>3. /\ IsBuffer(p, D) /\ p.size = b.size /\ p.size + n <= Capacity(p) /\ Content(p) = Content(b)
      /\ p.read_index = 0 \/ (p = e /\ WritableContiguous(e) >= n)
  <2>1. CASE WritableContiguous(e) < n
    BY <1>1, <1>2, <2>1, LinearizeKeeps
  <2>2. CASE ~(WritableContiguous(e) < n)
    <3>1. WritableContiguous(e) \in Nat
      <4>1. WriteIndex(e) \in 0..(Capacity(e) - 1) /\ Capacity(e) \in Nat /\ e.read_index \in Nat
        BY <1>1, WriteIndexOffset DEF IsBuffer, Capacity
      <4> QED BY <4>1 DEF WritableContiguous
    <3> QED BY <1>1, <1>2, <2>2, <3>1
  <2> QED BY <2>1, <2>2
<1>4. /\ p.size \in Nat /\ p.size <= Capacity(p) /\ Capacity(p) \in Nat
      /\ p.read_index \in Nat /\ p.read_index < Capacity(p)
      /\ WriteIndex(p) = Offset(p, p.size) /\ WriteIndex(p) \in 0..(Capacity(p) - 1)
  BY <1>3, WriteIndexOffset DEF IsBuffer, Capacity
<1>5. ASSUME NEW i \in 1..n PROVE WriteIndex(p) + i - 1 = Offset(p, p.size + i - 1)
  <2>1. CASE p.read_index = 0
    BY <1>3, <1>4, <2>1 DEF Offset
  <2>2. CASE p.read_index # 0
    <3>1. WritableContiguous(p) >= n /\ p.size # Capacity(p)
      BY <1>3, <1>4, <2>2
    <3>2. n <= IF WriteIndex(p) < p.read_index THEN p.read_index - WriteIndex(p)
               ELSE Capacity(p) - WriteIndex(p)
      BY <1>4, <3>1 DEF WritableContiguous
    <3> QED BY <1>3, <1>4, <3>2 DEF Offset
  <2> QED BY <2>1, <2>2
<1>6. ContiguousSpan(p, n) = Room(p, n)
  BY <1>5 DEF ContiguousSpan, Region, Room
<1> QED BY <1>3, <1>6 DEF p

(* So are the two regions of writable_regions(), one after the other.      *)
LEMMA RegionsAreRoom ==
  ASSUME NEW D, NEW b, IsBuffer(b, D), NEW n \in Nat, n > 0, b.size + n <= Capacity(b)
  PROVE  /\ WritableRegions(b, n)[1] \o WritableRegions(b, n)[2] = Room(b, n)
         /\ Len(WritableRegions(b, n)[1]) \in 0..n
<1>1. /\ b.size \in Nat /\ b.size <= Capacity(b) /\ Capacity(b) \in Nat
      /\ b.read_index \in Nat /\ b.read_index < Capacity(b)
      /\ WriteIndex(b) = Offset(b, b.size) /\ WriteIndex(b) \in 0..(Capacity(b) - 1)
  BY WriteIndexOffset DEF IsBuffer, Capacity
<1> DEFINE c == Capacity(b)
           tail == WriteIndex(b)
           r == b.read_index
<1>2. PICK f \in Nat : /\ f = Least(n, IF tail < r THEN r - tail ELSE c - tail)
                       /\ f = IF n <= c - tail THEN n ELSE c - tail
  <2>1. tail < r => r - tail >= n
    BY <1>1 DEF Offset
  <2>2. Least(n, IF tail < r THEN r - tail ELSE c - tail) = IF n <= c - tail THEN n ELSE c - tail
    BY <1>1, <2>1 DEF Least
  <2>3. (IF n <= c - tail THEN n ELSE c - tail) \in Nat
    BY <1>1
  <2> QED BY <2>2, <2>3
<1>3. (IF tail < r THEN 0 ELSE Least(n - f, r)) = n - f
  <2>1. tail < r => n - f = 0
    BY <1>1, <1>2 DEF Offset
  <2>2. ~(tail < r) => n - f <= r
    BY <1>1, <1>2 DEF Offset
  <2> QED BY <1>1, <1>2, <2>1, <2>2 DEF Least
<1>4. /\ WritableRegions(b, n)[1] = Region(tail, f)
      /\ WritableRegions(b, n)[2] = Region(0, n - f)
  BY <1>2, <1>3 DEF WritableRegions
<1>5. Region(tail, f) \o Region(0, n - f) = Ring(c, tail, n)
  <2>1. tail \in Nat /\ c \in Nat /\ tail < c /\ n <= c
    BY <1>1
  <2> HIDE DEF tail, c, r
  <2> QED BY <1>2, <2>1, TwoRegions
<1>6. Ring(c, tail, n) = Room(b, n)
  <2>1. ASSUME NEW i \in 1..n
        PROVE  (IF tail + (i - 1) < c THEN tail + (i - 1) ELSE tail + (i - 1) - c)
                 = Offset(b, b.size + i - 1)
    BY <1>1 DEF Offset
  <2> QED BY <2>1 DEF Ring, Room
<1>7. Len(Region(tail, f)) = f /\ f \in 0..n
  <2>1. tail \in Nat /\ f \in 0..n
    BY <1>1, <1>2
  <2> HIDE DEF tail, c, r
  <2> QED BY <2>1, Regions
<1> QED BY <1>4, <1>5, <1>6, <1>7

(* consume() takes away the first bytes.                                   *)
LEMMA ConsumeKeeps ==
  ASSUME NEW D, NEW b, IsBuffer(b, D), NEW n \in Nat, n > 0, n <= b.size
  PROVE  /\ IsBuffer(Consume(b, n), D)
         /\ Consume(b, n).size = b.size - n
         /\ Content(Consume(b, n)) = SubSeq(Content(b), n + 1, b.size)
<1>1. /\ b.size \in Nat /\ b.size <= Capacity(b) /\ Capacity(b) \in Nat
      /\ b.read_index \in Nat /\ b.read_index < Capacity(b) /\ b.storage \in Seq(D)
      /\ b \in [storage : Seq(D), read_index : Nat, size : Nat]
  BY DEF IsBuffer, Capacity
<1>2. Content(b) \in Seq(D) /\ Len(Content(b)) = b.size
      /\ \A i \in 1..b.size : Content(b)[i] = b.storage[Offset(b, i - 1) + 1]
  <2>1. Content(b) = Held(b, b.size)
    BY ReadableOffsets
  <2> QED BY <1>1, <2>1, HeldBytes
<1> DEFINE s == SubSeq(Content(b), n + 1, b.size)
           t == Consume(b, n)
<1>3. /\ s \in Seq(D) /\ Len(s) = b.size - n
      /\ \A i \in 1..(b.size - n) : s[i] = Content(b)[n + i]
  <2>1. \A i \in (n + 1)..b.size : Content(b)[i] \in D
    BY <1>1, <1>2
  <2>2. /\ s \in Seq(D) /\ Len(s) = IF n + 1 <= b.size THEN b.size - (n + 1) + 1 ELSE 0
        /\ \A i \in 1..(b.size - (n + 1) + 1) : s[i] = Content(b)[(n + 1) + i - 1]
    BY <1>1, <2>1, SubSeqProperties, SMTT(60)
  <2> HIDE DEF s
  <2> QED BY <1>1, <2>2
<1>4. /\ t.storage = b.storage /\ t.size = b.size - n /\ IsBuffer(t, D)
      /\ n < b.size => t.read_index = Offset(b, n)
  <2>1. PICK r \in Nat : /\ r = IF n = b.size THEN 0 ELSE (b.read_index + n) % Capacity(b)
                         /\ r < Capacity(b) /\ n < b.size => r = Offset(b, n)
    <3> DEFINE m == b.read_index + n
               c == Capacity(b)
    <3>1. m \in Nat /\ c \in Nat /\ c > 0 /\ m < 2 * c
      BY <1>1
    <3>2. Offset(b, n) = IF m < c THEN m ELSE m - c
      BY <1>1, <3>1 DEF Offset
    <3> HIDE DEF m, c
    <3>3. m % c = IF m < c THEN m ELSE m - c
      BY <3>1, Remainder
    <3>4. m % c \in Nat /\ m % c < c
      BY <3>1, <3>3
    <3> QED BY <1>1, <3>1, <3>2, <3>3, <3>4 DEF m, c
  <2>2. t = [storage |-> b.storage, read_index |-> r, size |-> b.size - n]
    BY <2>1 DEF Consume
  <2>3. /\ t.storage = b.storage /\ t.read_index = r /\ t.size = b.size - n
        /\ t \in [storage : Seq(D), read_index : Nat, size : Nat]
    BY <1>1, <2>2
  <2> HIDE DEF t
  <2> QED BY <1>1, <2>1, <2>3 DEF IsBuffer, Capacity
<1> HIDE DEF s, t
<1>5. Content(t) \in Seq(D) /\ Len(Content(t)) = b.size - n
      /\ \A i \in 1..(b.size - n) : Content(t)[i] = t.storage[Offset(t, i - 1) + 1]
  <2>1. b.size - n \in Nat /\ b.size - n <= Capacity(t)
    BY <1>1, <1>4 DEF Capacity
  <2> QED BY <1>4, <2>1, ReadableOffsets, HeldBytes
<1>6. ASSUME NEW i \in 1..(b.size - n) PROVE Content(t)[i] = s[i]
  <2>1. Offset(t, i - 1) = Offset(b, n + i - 1)
    BY <1>1, <1>4 DEF Offset, Capacity
  <2>2. n + i \in 1..b.size /\ n + i - 1 = (n + i) - 1
    BY <1>1
  <2> QED BY <1>2, <1>3, <1>4, <1>5, <2>1, <2>2
<1>7. Content(t) = s
  BY <1>3, <1>5, <1>6, SeqEqual
<1> QED BY <1>4, <1>7 DEF s, t

-----------------------------------------------------------------------------
(* No room is no offset.                                                   *)
LEMMA RoomOfNone ==
  ASSUME NEW b
  PROVE  Room(b, 0) = <<>>
<1>1. Room(b, 0) \in [1..0 -> {}]
  BY DEF Room
<1>2. Room(b, 0) \in Seq({}) /\ Len(Room(b, 0)) = 0
  BY <1>1, FunctionIsSeq
<1> QED BY <1>2, EmptySeq

(* The offsets of the room are those of the storage.                       *)
LEMMA RoomOffsets ==
  ASSUME NEW D, NEW b, IsBuffer(b, D), NEW n \in Nat, b.size + n <= Capacity(b)
  PROVE  /\ Room(b, n) \in Seq(Nat) /\ Len(Room(b, n)) = n
         /\ \A i \in 1..n : /\ Room(b, n)[i] = Offset(b, b.size + i - 1)
                            /\ Room(b, n)[i] \in 0..(Capacity(b) - 1)
<1>1. \A i \in 1..n : b.size + i - 1 \in Nat /\ b.size + i - 1 < Capacity(b)
  BY DEF IsBuffer, Capacity
<1>2. \A i \in 1..n : Offset(b, b.size + i - 1) \in 0..(Capacity(b) - 1)
  BY <1>1, Offsets
<1>3. Room(b, n) \in [1..n -> Nat]
  <2>1. \A i \in 1..n : Offset(b, b.size + i - 1) \in Nat
    BY <1>2, Offsets
  <2> QED BY <2>1 DEF Room
<1> QED BY <1>2, <1>3, FunctionIsSeq DEF Room

(* The content and the first bytes of the room are what is held.           *)
LEMMA HeldMore ==
  ASSUME NEW D, NEW b, IsBuffer(b, D), NEW n \in Nat, b.size + n <= Capacity(b),
         NEW m \in Nat, m <= n
  PROVE  /\ Content(b) \o BytesAt(b, SubSeq(Room(b, n), 1, m)) = Held(b, b.size + m)
         /\ Content(b) \in Seq(D) /\ Len(Content(b)) = b.size
         /\ BytesAt(b, SubSeq(Room(b, n), 1, m)) \in Seq(D)
         /\ Len(BytesAt(b, SubSeq(Room(b, n), 1, m))) = m
<1> DEFINE r == SubSeq(Room(b, n), 1, m)
           t == BytesAt(b, r)
           c == Content(b)
           h == Held(b, b.size + m)
<1>1. /\ b.size \in Nat /\ b.size <= Capacity(b) /\ Capacity(b) \in Nat
      /\ b.storage \in Seq(D) /\ Len(b.storage) = Capacity(b)
  BY DEF IsBuffer, Capacity
<1>2. /\ Room(b, n) \in Seq(Nat) /\ Len(Room(b, n)) = n
      /\ \A i \in 1..n : /\ Room(b, n)[i] = Offset(b, b.size + i - 1)
                         /\ Room(b, n)[i] \in 0..(Capacity(b) - 1)
  BY RoomOffsets
<1>3. r \in Seq(Nat) /\ Len(r) = m /\ \A i \in 1..m : r[i] = Room(b, n)[i]
  <2>1. \A i \in 1..m : Room(b, n)[i] \in Nat
    BY <1>2
  <2>2. /\ r \in Seq(Nat) /\ Len(r) = IF 1 <= m THEN m - 1 + 1 ELSE 0
        /\ \A i \in 1..(m - 1 + 1) : r[i] = Room(b, n)[1 + i - 1]
    BY <2>1, SubSeqProperties
  <2> HIDE DEF r
  <2> QED BY <2>2
<1> HIDE DEF r
<1>4. /\ t \in Seq(D) /\ Len(t) = m
      /\ \A i \in 1..m : t[i] = b.storage[Offset(b, b.size + i - 1) + 1]
  <2>1. DOMAIN r = 1..m
    BY <1>3
  <2>2. \A i \in 1..m : r[i] = Offset(b, b.size + i - 1) /\ r[i] + 1 \in 1..Capacity(b)
    BY <1>1, <1>2, <1>3, SMTT(60)
  <2>3. \A i \in 1..m : b.storage[r[i] + 1] \in D
    BY <1>1, <2>2
  <2>4. t = [i \in 1..m |-> b.storage[r[i] + 1]]
    BY <2>1 DEF BytesAt
  <2> HIDE DEF t
  <2>5. t \in [1..m -> D]
    BY <2>3, <2>4
  <2> QED BY <2>2, <2>4, <2>5, FunctionIsSeq
<1>5. /\ c \in Seq(D) /\ Len(c) = b.size
      /\ \A i \in 1..b.size : c[i] = b.storage[Offset(b, i - 1) + 1]
  <2>1. c = Held(b, b.size)
    BY ReadableOffsets
  <2> HIDE DEF c
  <2> QED BY <1>1, <2>1, HeldBytes
<1>6. /\ h \in Seq(D) /\ Len(h) = b.size + m
      /\ \A i \in 1..(b.size + m) : h[i] = b.storage[Offset(b, i - 1) + 1]
  <2>1. b.size + m \in Nat /\ b.size + m <= Capacity(b)
    BY <1>1
  <2> QED BY <2>1, HeldBytes
<1> HIDE DEF t, c, h
<1>7. /\ c \o t \in Seq(D) /\ Len(c \o t) = b.size + m
      /\ \A i \in 1..(b.size + m) : (c \o t)[i] = IF i <= b.size THEN c[i] ELSE t[i - b.size]
  <2>1. /\ c \o t \in Seq(D) /\ Len(c \o t) = Len(c) + Len(t)
        /\ \A i \in 1..(Len(c) + Len(t)) :
             (c \o t)[i] = IF i <= Len(c) THEN c[i] ELSE t[i - Len(c)]
    BY <1>4, <1>5, ConcatProperties, Zenon
  <2> QED BY <1>4, <1>5, <2>1
<1>8. ASSUME NEW i \in 1..(b.size + m) PROVE (c \o t)[i] = h[i]
  <2>1. CASE i <= b.size
    BY <1>1, <1>5, <1>6, <1>7, <2>1
  <2>2. CASE ~(i <= b.size)
    <3>1. i - b.size \in 1..m /\ b.size + (i - b.size) - 1 = i - 1
      BY <1>1, <2>2
    <3>2. t[i - b.size] = b.storage[Offset(b, i - 1) + 1]
      BY <1>4, <3>1
    <3> QED BY <1>6, <1>7, <2>2, <3>2
  <2> QED BY <2>1, <2>2
<1>9. c \o t = h
  BY <1>6, <1>7, <1>8, SeqEqual
<1> QED BY <1>4, <1>5, <1>9 DEF c, t, h, r

(* commit() publishes the first bytes of the room.                         *)
LEMMA CommitKeeps ==
  ASSUME NEW D, NEW b, IsBuffer(b, D), NEW n \in Nat, b.size + n <= Capacity(b)
  PROVE  /\ IsBuffer(Commit(b, n), D) /\ Commit(b, n).size = b.size + n
         /\ Content(Commit(b, n)) = Held(b, b.size + n)
         /\ Readable(Commit(b, n)) = [i \in 1..(b.size + n) |-> Offset(b, i - 1)]
<1> DEFINE c == Commit(b, n)
<1>1. /\ b.size \in Nat /\ Capacity(b) \in Nat /\ Capacity(b) = Len(b.storage)
      /\ b.read_index \in Nat /\ b.read_index < Capacity(b) /\ b.storage \in Seq(D)
      /\ b \in [storage : Seq(D), read_index : Nat, size : Nat]
  BY DEF IsBuffer, Capacity
<1>2. /\ c.storage = b.storage /\ c.read_index = b.read_index /\ c.size = b.size + n
      /\ c \in [storage : Seq(D), read_index : Nat, size : Nat]
  BY <1>1 DEF Commit
<1> HIDE DEF c
<1>3. IsBuffer(c, D) /\ Capacity(c) = Capacity(b)
  BY <1>1, <1>2 DEF IsBuffer, Capacity
<1>4. \A i : Offset(c, i) = Offset(b, i)
  BY <1>2, <1>3 DEF Offset
<1>5. Readable(c) = [i \in 1..c.size |-> Offset(c, i - 1)] /\ Content(c) = Held(c, c.size)
  BY <1>3, ReadableOffsets
<1>6. Held(c, c.size) = Held(b, b.size + n)
  BY <1>2, <1>4 DEF Held
<1>7. [i \in 1..c.size |-> Offset(c, i - 1)] = [i \in 1..(b.size + n) |-> Offset(b, i - 1)]
  BY <1>2, <1>4
<1> QED BY <1>2, <1>3, <1>5, <1>6, <1>7 DEF c

(* What it publishes is the room, behind what was readable before.         *)
LEMMA CommitRoom ==
  ASSUME NEW D, NEW b, IsBuffer(b, D), NEW n \in Nat, b.size + n <= Capacity(b)
  PROVE  Readable(Commit(b, n)) = Readable(b) \o Room(b, n)
<1> DEFINE p == Readable(b)
           r == Room(b, n)
           w == [i \in 1..(b.size + n) |-> Offset(b, i - 1)]
<1>1. /\ b.size \in Nat /\ b.size <= Capacity(b) /\ Capacity(b) \in Nat
  BY DEF IsBuffer, Capacity
<1>2. /\ r \in Seq(Nat) /\ Len(r) = n /\ \A i \in 1..n : r[i] = Offset(b, b.size + i - 1)
  BY RoomOffsets
<1>3. \A i \in Nat : i < Capacity(b) => Offset(b, i) \in Nat
  BY <1>1, Offsets
<1>4. /\ p \in Seq(Nat) /\ Len(p) = b.size /\ \A i \in 1..b.size : p[i] = Offset(b, i - 1)
  <2>1. p = [i \in 1..b.size |-> Offset(b, i - 1)]
    BY ReadableOffsets
  <2> HIDE DEF p
  <2>2. \A i \in 1..b.size : i - 1 \in Nat /\ i - 1 < Capacity(b)
    BY <1>1
  <2>3. p \in [1..b.size -> Nat]
    BY <1>3, <2>1, <2>2
  <2> QED BY <1>1, <2>1, <2>3, FunctionIsSeq
<1>5. /\ w \in Seq(Nat) /\ Len(w) = b.size + n
  <2>1. \A i \in 1..(b.size + n) : i - 1 \in Nat /\ i - 1 < Capacity(b)
    BY <1>1
  <2>2. w \in [1..(b.size + n) -> Nat]
    BY <1>3, <2>1
  <2>3. b.size + n \in Nat
    BY <1>1
  <2> HIDE DEF w
  <2> QED BY <2>2, <2>3, FunctionIsSeq
<1>6. \A i \in 1..(b.size + n) : w[i] = Offset(b, i - 1)
  OBVIOUS
<1> HIDE DEF p, r, w
<1>7. /\ p \o r \in Seq(Nat) /\ Len(p \o r) = b.size + n
      /\ \A i \in 1..(b.size + n) : (p \o r)[i] = IF i <= b.size THEN p[i] ELSE r[i - b.size]
  <2>1. /\ p \o r \in Seq(Nat) /\ Len(p \o r) = Len(p) + Len(r)
        /\ \A i \in 1..(Len(p) + Len(r)) :
             (p \o r)[i] = IF i <= Len(p) THEN p[i] ELSE r[i - Len(p)]
    BY <1>2, <1>4, ConcatProperties, Zenon
  <2> QED BY <1>2, <1>4, <2>1
<1>8. ASSUME NEW i \in 1..(b.size + n) PROVE (p \o r)[i] = w[i]
  <2>1. CASE i <= b.size
    BY <1>1, <1>4, <1>6, <1>7, <2>1
  <2>2. CASE ~(i <= b.size)
    <3>1. i - b.size \in 1..n /\ b.size + (i - b.size) - 1 = i - 1
      BY <1>1, <2>2
    <3>2. r[i - b.size] = Offset(b, i - 1)
      BY <1>2, <3>1
    <3> QED BY <1>6, <1>7, <2>2, <3>2
  <2> QED BY <2>1, <2>2
<1>9. p \o r = w
  BY <1>5, <1>7, <1>8, SeqEqual
<1> QED BY <1>9, CommitKeeps DEF p, r, w

(* An empty buffer is a ring of zeros.                                     *)
LEMMA EmptyBufferIsBuffer ==
  ASSUME NEW D, 0 \in D, NEW c \in Nat, c > 0
  PROVE  /\ IsBuffer(EmptyBuffer(c), D) /\ EmptyBuffer(c).size = 0
         /\ Content(EmptyBuffer(c)) = <<>>
<1> DEFINE b == EmptyBuffer(c)
<1>1. ZeroBytes(c) \in [1..c -> D]
  BY DEF ZeroBytes
<1>2. ZeroBytes(c) \in Seq(D) /\ Len(ZeroBytes(c)) = c
  BY <1>1, FunctionIsSeq
<1>3. b.storage = ZeroBytes(c) /\ b.size = 0 /\ b.read_index = 0
      /\ b \in [storage : Seq(D), read_index : Nat, size : Nat]
  BY <1>2 DEF EmptyBuffer
<1> HIDE DEF b
<1>4. IsBuffer(b, D)
  BY <1>2, <1>3 DEF IsBuffer
<1>5. 0 <= Capacity(b)
  BY <1>2, <1>3 DEF Capacity
<1>6. Content(b) = Held(b, 0)
  BY <1>3, <1>4, ReadableOffsets
<1>7. Content(b) \in Seq(D) /\ Len(Content(b)) = 0
  BY <1>4, <1>5, <1>6, HeldBytes
<1> QED BY <1>3, <1>4, <1>7, EmptySeq DEF b

(* The storage after t has been written to the offsets in s after the o-th.*)
Stored(b, s, o, t) ==
  [i \in DOMAIN b.storage |-> IF \E k \in DOMAIN t : s[o + k] = i - 1
                                THEN t[CHOOSE k \in DOMAIN t : s[o + k] = i - 1]
                                ELSE b.storage[i]]

(* The buffer whose room, n offsets, has t after the first o of them.      *)
WithStored(b, n, o, t) == [b EXCEPT !.storage = Stored(b, Room(b, n), o, t)]

(* Written to the room, behind the o bytes that are there, it is held with *)
(* what was held before.                                                   *)
LEMMA StoredBytes ==
  ASSUME NEW D, NEW b, IsBuffer(b, D), NEW n \in Nat, b.size + n <= Capacity(b),
         NEW o \in Nat, NEW t \in Seq(D), o + Len(t) <= n
  PROVE  /\ IsBuffer(WithStored(b, n, o, t), D)
         /\ Capacity(WithStored(b, n, o, t)) = Capacity(b)
         /\ WithStored(b, n, o, t).size = b.size
         /\ Room(WithStored(b, n, o, t), n) = Room(b, n)
         /\ Held(WithStored(b, n, o, t), b.size + (o + Len(t))) = Held(b, b.size + o) \o t
<1> DEFINE d == WithStored(b, n, o, t)
           s == Room(b, n)
           f == Stored(b, s, o, t)
           l == Len(t)
<1>1. /\ b.size \in Nat /\ Capacity(b) \in Nat /\ Capacity(b) = Len(b.storage)
      /\ b.read_index \in Nat /\ b.read_index < Capacity(b) /\ b.storage \in Seq(D)
      /\ b \in [storage : Seq(D), read_index : Nat, size : Nat]
      /\ DOMAIN b.storage = 1..Capacity(b) /\ b.size <= Capacity(b)
  BY DEF IsBuffer, Capacity
<1>2. l \in Nat /\ DOMAIN t = 1..l /\ \A k \in 1..l : t[k] \in D
  OBVIOUS
<1>3. \A k \in 1..l : /\ b.size + o + k - 1 \in Nat /\ b.size + o + k - 1 < Capacity(b)
                      /\ s[o + k] = Offset(b, b.size + o + k - 1)
  <2>1. \A i \in 1..n : s[i] = Offset(b, b.size + i - 1)
    BY RoomOffsets
  <2>2. \A k \in 1..l : o + k \in 1..n /\ b.size + (o + k) - 1 = b.size + o + k - 1
    BY <1>1, <1>2
  <2> QED BY <1>1, <2>1, <2>2, SMTT(60)
<1>4. \A i \in Nat : i < Capacity(b) => Offset(b, i) \in 0..(Capacity(b) - 1)
  BY Offsets
<1>5. ASSUME NEW i \in Nat, NEW j \in Nat, i < Capacity(b), j < Capacity(b),
             Offset(b, i) = Offset(b, j)
      PROVE  i = j
  BY <1>5, Offsets
<1>6. ASSUME NEW i \in 1..Capacity(b) PROVE f[i] \in D
  <2>1. b.storage[i] \in D
    BY <1>1
  <2>2. CASE \E k \in DOMAIN t : s[o + k] = i - 1
    <3>1. (CHOOSE k \in DOMAIN t : s[o + k] = i - 1) \in DOMAIN t
      BY <2>2
    <3>2. f[i] = t[CHOOSE k \in DOMAIN t : s[o + k] = i - 1]
      BY <1>1, <2>2 DEF Stored
    <3> QED BY <1>2, <3>1, <3>2
  <2>3. CASE ~(\E k \in DOMAIN t : s[o + k] = i - 1)
    <3>1. f[i] = b.storage[i]
      BY <1>1, <2>3 DEF Stored
    <3> QED BY <2>1, <3>1
  <2> QED BY <2>2, <2>3
<1>7. ASSUME NEW k \in 1..l PROVE f[s[o + k] + 1] = t[k]
  <2> DEFINE i == s[o + k] + 1
  <2>1. i \in 1..Capacity(b) /\ s[o + k] = i - 1
    <3>1. s[o + k] \in 0..(Capacity(b) - 1)
      BY <1>3, <1>4
    <3> QED BY <1>1, <3>1
  <2>2. \A q \in 1..l : s[o + q] = s[o + k] => q = k
    <3> SUFFICES ASSUME NEW q \in 1..l, s[o + q] = s[o + k] PROVE q = k
      OBVIOUS
    <3>1. b.size + o + q - 1 = b.size + o + k - 1
      BY <1>3, <1>5
    <3> QED BY <1>1, <1>2, <3>1
  <2> HIDE DEF i
  <2>3. (CHOOSE q \in DOMAIN t : s[o + q] = i - 1) = k
    BY <1>2, <2>1, <2>2
  <2>4. f[i] = t[CHOOSE q \in DOMAIN t : s[o + q] = i - 1]
    BY <1>1, <1>2, <2>1 DEF Stored
  <2> QED BY <2>3, <2>4 DEF i
<1>8. ASSUME NEW j \in 1..(b.size + o)
      PROVE  /\ j - 1 \in Nat /\ j - 1 < Capacity(b)
             /\ f[Offset(b, j - 1) + 1] = b.storage[Offset(b, j - 1) + 1]
  <2>1. j - 1 \in Nat /\ j - 1 < Capacity(b) /\ j - 1 < b.size + o
    BY <1>1, <1>2
  <2> DEFINE i == Offset(b, j - 1) + 1
  <2>2. i \in 1..Capacity(b) /\ Offset(b, j - 1) = i - 1
    <3>1. Offset(b, j - 1) \in 0..(Capacity(b) - 1)
      BY <1>4, <2>1
    <3> QED BY <1>1, <3>1
  <2>3. \A k \in 1..l : s[o + k] # Offset(b, j - 1)
    <3> SUFFICES ASSUME NEW k \in 1..l, s[o + k] = Offset(b, j - 1) PROVE FALSE
      OBVIOUS
    <3>1. b.size + o + k - 1 = j - 1
      BY <1>3, <1>5, <2>1
    <3> QED BY <1>1, <1>2, <2>1, <3>1
  <2> HIDE DEF i
  <2>4. f[i] = b.storage[i]
    BY <1>1, <1>2, <2>2, <2>3 DEF Stored
  <2> QED BY <2>1, <2>4 DEF i
<1>9. f \in Seq(D) /\ Len(f) = Capacity(b)
  <2>1. f = [i \in 1..Capacity(b) |-> f[i]]
    BY <1>1 DEF Stored
  <2> HIDE DEF f
  <2>2. f \in [1..Capacity(b) -> D]
    BY <1>6, <2>1
  <2> QED BY <1>1, <2>2, FunctionIsSeq
<1>10. /\ d.storage = f /\ d.read_index = b.read_index /\ d.size = b.size
       /\ d \in [storage : Seq(D), read_index : Nat, size : Nat]
  <2> HIDE DEF f
  <2>1. d = [b EXCEPT !.storage = f]
    BY DEF WithStored, f
  <2> HIDE DEF d
  <2> QED BY <1>1, <1>9, <2>1
<1> HIDE DEF f, l, d, s
<1>11. IsBuffer(d, D) /\ Capacity(d) = Capacity(b)
  BY <1>1, <1>9, <1>10 DEF IsBuffer, Capacity
<1>12. \A i : Offset(d, i) = Offset(b, i)
  BY <1>10, <1>11 DEF Offset
<1>13. Room(d, n) = s
  BY <1>10, <1>12 DEF Room, s
<1> DEFINE g == Held(d, b.size + (o + l))
           h == Held(b, b.size + o)
<1>14. /\ g \in Seq(D) /\ Len(g) = b.size + o + l
       /\ \A j \in 1..(b.size + o + l) : g[j] = f[Offset(b, j - 1) + 1]
  <2>1. PICK m \in Nat : m = b.size + (o + l) /\ m = b.size + o + l /\ m <= Capacity(d)
    <3>1. o + l <= n
      BY DEF l
    <3>2. b.size + (o + l) \in Nat /\ b.size + (o + l) = b.size + o + l
      BY <1>1, <1>2
    <3>3. b.size + (o + l) <= Capacity(d)
      BY <1>1, <1>2, <1>11, <3>1
    <3> QED BY <3>2, <3>3
  <2>2. /\ Held(d, m) \in Seq(D) /\ Len(Held(d, m)) = m
        /\ \A j \in 1..m : Held(d, m)[j] = d.storage[Offset(d, j - 1) + 1]
    BY <1>11, <2>1, HeldBytes
  <2> QED BY <1>10, <1>12, <2>1, <2>2
<1>15. /\ h \in Seq(D) /\ Len(h) = b.size + o
       /\ \A j \in 1..(b.size + o) : h[j] = b.storage[Offset(b, j - 1) + 1]
  <2>1. b.size + o \in Nat /\ b.size + o <= Capacity(b)
    BY <1>1, <1>2 DEF l
  <2> QED BY <2>1, HeldBytes
<1> HIDE DEF g, h
<1>16. /\ h \o t \in Seq(D) /\ Len(h \o t) = b.size + o + l
       /\ \A i \in 1..(b.size + o + l) :
            (h \o t)[i] = IF i <= b.size + o THEN h[i] ELSE t[i - (b.size + o)]
  <2>1. /\ h \o t \in Seq(D) /\ Len(h \o t) = Len(h) + Len(t)
        /\ \A i \in 1..(Len(h) + Len(t)) :
             (h \o t)[i] = IF i <= Len(h) THEN h[i] ELSE t[i - Len(h)]
    BY <1>15, ConcatProperties, Zenon
  <2> QED BY <1>15, <2>1 DEF l
<1>17. ASSUME NEW j \in 1..(b.size + o + l) PROVE g[j] = (h \o t)[j]
  <2>1. CASE j <= b.size + o
    <3>1. j \in 1..(b.size + o)
      BY <1>1, <2>1
    <3> QED BY <1>8, <1>14, <1>15, <1>16, <2>1, <3>1
  <2>2. CASE ~(j <= b.size + o)
    <3>1. PICK k \in 1..l : k = j - (b.size + o) /\ b.size + o + k - 1 = j - 1
      <4>1. PICK c \in Nat : c = b.size + o
        BY <1>1
      <4>2. j \in 1..(c + l) /\ ~(j <= c) /\ l \in Nat
        BY <1>2, <2>2, <4>1
      <4>3. j - c \in 1..l /\ c + (j - c) - 1 = j - 1
        BY <4>2
      <4> QED BY <4>1, <4>3
    <3>2. f[Offset(b, j - 1) + 1] = t[k]
      BY <1>3, <1>7, <3>1
    <3> QED BY <1>14, <1>16, <2>2, <3>1, <3>2
  <2> QED BY <2>1, <2>2
<1>18. g = h \o t
  BY <1>14, <1>16, <1>17, SeqEqual
<1> QED BY <1>10, <1>11, <1>13, <1>18 DEF g, h, l, d, s

(* A sequence cut in two.                                                  *)
LEMMA CutInTwo ==
  ASSUME NEW D, NEW s \in Seq(D), NEW n \in Nat, n > 0, n <= Len(s)
  PROVE  /\ SubSeq(s, 1, n) \in Seq(D) /\ Len(SubSeq(s, 1, n)) = n
         /\ SubSeq(s, n + 1, Len(s)) \in Seq(D) /\ Len(SubSeq(s, n + 1, Len(s))) = Len(s) - n
         /\ SubSeq(s, 1, n) \o SubSeq(s, n + 1, Len(s)) = s
<1>1. /\ Len(s) \in Nat /\ 1 \in 1..(Len(s) + 1) /\ n \in (1 - 1)..Len(s) /\ Len(s) \in n..Len(s)
      /\ \A i \in 1..Len(s) : s[i] \in D
  OBVIOUS
<1>2. SubSeq(s, 1, n) \o SubSeq(s, n + 1, Len(s)) = SubSeq(s, 1, Len(s))
  BY <1>1, ConcatAdjacentSubSeq
<1>3. SubSeq(s, 1, Len(s)) = s
  BY SubSeqFull
<1>4. SubSeq(s, 1, n) \in Seq(D) /\ Len(SubSeq(s, 1, n)) = n
  BY <1>1
<1>5. SubSeq(s, n + 1, Len(s)) \in Seq(D) /\ Len(SubSeq(s, n + 1, Len(s))) = Len(s) - n
  BY <1>1
<1> QED BY <1>2, <1>3, <1>4, <1>5

(* What is taken off the front of two sequences, and what then stays.      *)
LEMMA FrontOfTwo ==
  ASSUME NEW D, NEW s \in Seq(D), NEW t \in Seq(D), NEW n \in 1..Len(s)
  PROVE  /\ SubSeq(s \o t, 1, n) = SubSeq(s, 1, n)
         /\ SubSeq(s \o t, n + 1, Len(s \o t)) = SubSeq(s, n + 1, Len(s)) \o t
<1> DEFINE a == SubSeq(s, 1, n)
           c == SubSeq(s, n + 1, Len(s))
           u == c \o t
<1>1. Len(s) \in Nat /\ n \in Nat /\ n <= Len(s)
  OBVIOUS
<1>2. a \in Seq(D) /\ Len(a) = n /\ c \in Seq(D) /\ a \o c = s
  BY <1>1, CutInTwo
<1> HIDE DEF a, c
<1>3. u \in Seq(D)
  BY <1>2, ConcatProperties
<1>4. s \o t = a \o u
  <2>1. ASSUME NEW p \in Seq(D), NEW q \in Seq(D) PROVE (p \o q) \o t = p \o (q \o t)
    BY ConcatAssociative, SMTT(60)
  <2>2. (a \o c) \o t = a \o (c \o t)
    BY <1>2, <2>1
  <2> QED BY <1>2, <2>2
<1> HIDE DEF u
<1>5. SubSeq(a \o u, 1, n) = a /\ SubSeq(a \o u, n + 1, Len(a \o u)) = u
  BY <1>1, <1>2, <1>3
<1> QED BY <1>4, <1>5 DEF a, c, u

-----------------------------------------------------------------------------
(* What the bytes in flight rest on: the span is the room behind the       *)
(* content, as far as it goes; ...                                         *)
RoomInv ==
  /\ IsBuffer(buffer, 0..Total)
  /\ split \in Nat /\ done \in Nat /\ part \in Nat
  /\ span = Room(buffer, Len(span)) /\ buffer.size + Len(span) <= Capacity(buffer)

(* ... between two reads there is none, and only read_exact() leaves a     *)
(* region in part filled; ...                                              *)
CallInv ==
  /\ op["client"] \notin {"accept", "read_some", "read_exact"}
  /\ op["server"] \notin {"connect", "write_some", "write_all"}
  /\ pc["server"] = "start" => op["server"] \in {"none", "accept"}
  /\ pc["server"] = "idle" \/ op["server"] \in {"none", "accept"} =>
       span = <<>> /\ done = 0 /\ part = 0
  /\ part # 0 => op["server"] = "read_exact" /\ pc["server"] \in {"call", "wait", "ended"}

(* ... and every byte sent is in one place.                                *)
CountInv ==
  /\ want <= Total - sent
  /\ eof => pipe = <<>> /\ ~open["client"]
  /\ taken \in Seq(0..Total)
  /\ Len(taken) + (buffer.size + (done + part)) + Len(pipe) = sent

(* Together they are inductive.                                            *)
StreamInductive == StreamTypeOK /\ RoomInv /\ CallInv /\ CountInv

(* The bytes that the server has, consumed ones aside, and all in flight.  *)
Kept    == Content(buffer) \o Uncommitted
Transit == Kept \o pipe

(* No offset is no byte.                                                   *)
LEMMA BytesOfNone ==
  ASSUME NEW b
  PROVE  BytesAt(b, <<>>) = <<>>
<1>1. DOMAIN <<>> = 1..0
  OBVIOUS
<1>2. BytesAt(b, <<>>) \in [1..0 -> {}]
  BY <1>1 DEF BytesAt
<1>3. BytesAt(b, <<>>) \in Seq({}) /\ Len(BytesAt(b, <<>>)) = 0
  BY <1>2, FunctionIsSeq
<1> QED BY <1>3, EmptySeq

(* At first nothing is in flight.                                          *)
LEMMA StreamStarts == StreamInit => StreamInductive /\ Transit = <<>>
<1> SUFFICES ASSUME StreamInit PROVE StreamInductive /\ Transit = <<>>
  OBVIOUS
<1>1. /\ Total \in Nat \ {0} /\ PipeCapacity \in Nat \ {0}
      /\ InitialCapacity \in Nat \ {0} /\ MaxRequest \in Nat \ {0}
  BY StreamAssumption
<1>2. IsBuffer(buffer, 0..Total) /\ buffer.size = 0 /\ Content(buffer) = <<>>
  <2>1. 0 \in 0..Total /\ InitialCapacity \in Nat /\ InitialCapacity > 0
    BY <1>1
  <2>2. buffer = EmptyBuffer(InitialCapacity)
    BY DEF StreamInit
  <2> QED BY <2>1, <2>2, EmptyBufferIsBuffer
<1>3. span = <<>> /\ Len(span) = 0
  BY DEF StreamInit
<1>4. RoomInv
  BY <1>2, <1>3, RoomOfNone DEF StreamInit, RoomInv, IsBuffer, Capacity
<1>5. StreamTypeOK
  <2>1. buffer.storage \in Seq(0..Total) /\ buffer.size <= Capacity(buffer)
    BY <1>2 DEF IsBuffer, Capacity
  <2>2. /\ pipe \in Seq(1..Total) /\ Len(pipe) <= PipeCapacity
        /\ span \in Seq(Nat) /\ split <= Len(span) /\ done + part <= Len(span)
    BY <1>1, EmptySeq DEF StreamInit
  <2>3. want \in 0..MaxRequest /\ sent \in 0..Total
    BY <1>1 DEF StreamInit
  <2>4. /\ link = "none" /\ eof \in BOOLEAN
        /\ open \in [Ends -> BOOLEAN] /\ callCancelled \in [Ends -> BOOLEAN]
        /\ pc \in [Ends -> {"start"}] /\ op \in [Ends -> {"none"}]
    BY DEF StreamInit
  <2> QED BY <2>1, <2>2, <2>3, <2>4 DEF StreamTypeOK
<1>6. CallInv
  BY DEF StreamInit, CallInv, Ends
<1>7. CountInv
  BY <1>1, <1>2 DEF StreamInit, CountInv
<1>8. Transit = <<>>
  <2>1. SubSeq(span, 1, done + part) = <<>>
    BY <1>3 DEF StreamInit
  <2>2. Uncommitted = BytesAt(buffer, <<>>)
    BY <2>1 DEF Uncommitted
  <2>3. Uncommitted = <<>>
    BY <2>2, BytesOfNone
  <2> QED BY <1>2, <2>3 DEF Transit, Kept, StreamInit
<1> QED BY <1>4, <1>5, <1>6, <1>7, <1>8 DEF StreamInductive

(* The bytes kept are those held from the read index on.                   *)
LEMMA KeptHeld ==
  ASSUME NEW D, NEW b, IsBuffer(b, D), NEW s \in Seq(Nat), s = Room(b, Len(s)),
         b.size + Len(s) <= Capacity(b), NEW m \in Nat, m <= Len(s)
  PROVE  /\ Content(b) \o BytesAt(b, SubSeq(s, 1, m)) = Held(b, b.size + m)
         /\ Held(b, b.size + m) \in Seq(D) /\ Len(Held(b, b.size + m)) = b.size + m
<1>1. Len(s) \in Nat /\ b.size \in Nat /\ Capacity(b) \in Nat
  BY DEF IsBuffer, Capacity
<1>2. Content(b) \o BytesAt(b, SubSeq(Room(b, Len(s)), 1, m)) = Held(b, b.size + m)
  BY <1>1, HeldMore
<1>3. b.size + m \in Nat /\ b.size + m <= Capacity(b)
  BY <1>1
<1> QED BY <1>2, <1>3, HeldBytes

(* In a state of the inductive invariant.                                  *)
LEMMA KeptNow ==
  ASSUME StreamInductive
  PROVE  /\ done + part \in Nat /\ buffer.size \in Nat
         /\ Kept = Held(buffer, buffer.size + (done + part))
         /\ Kept \in Seq(0..Total) /\ Len(Kept) = buffer.size + (done + part)
<1>1. /\ IsBuffer(buffer, 0..Total) /\ span \in Seq(Nat) /\ span = Room(buffer, Len(span))
      /\ buffer.size + Len(span) <= Capacity(buffer)
      /\ done + part \in Nat /\ done + part <= Len(span) /\ buffer.size \in Nat
  BY DEF StreamInductive, StreamTypeOK, RoomInv, IsBuffer
<1>2. /\ Content(buffer) \o BytesAt(buffer, SubSeq(span, 1, done + part))
            = Held(buffer, buffer.size + (done + part))
      /\ Held(buffer, buffer.size + (done + part)) \in Seq(0..Total)
      /\ Len(Held(buffer, buffer.size + (done + part))) = buffer.size + (done + part)
  BY <1>1, KeptHeld
<1> QED BY <1>1, <1>2 DEF Kept, Uncommitted

(* The pipe's bytes are bytes.                                             *)
LEMMA PipeBytes ==
  ASSUME NEW s \in Seq(1..Total)
  PROVE  s \in Seq(0..Total)
<1>1. \A i \in 1..Len(s) : s[i] \in 0..Total
  BY StreamAssumption
<1>2. s \in [1..Len(s) -> 0..Total] /\ Len(s) \in Nat
  BY <1>1
<1> QED BY <1>2, FunctionIsSeq

-----------------------------------------------------------------------------
(* A step that moves no byte.                                              *)
LEMMA QuietStep ==
  ASSUME StreamInductive,
         UNCHANGED <<readVars, pipe, sent, taken>>,
         link' \in {"none", "pending", "up", "refused"},
         open' \in [Ends -> BOOLEAN], ~open["client"] => ~open'["client"],
         callCancelled' \in [Ends -> BOOLEAN],
         want' \in 0..MaxRequest, want' <= Total - sent,
         pc' \in [Ends -> {"start", "call", "wait", "returned", "idle", "ended"}],
         op' \in [Ends -> {"none", "connect", "accept", "write_some", "write_all",
                           "read_some", "read_exact"}],
         CallInv'
  PROVE  StreamInductive' /\ Transit' = Transit /\ UNCHANGED <<sent, taken>>
<1>1. UNCHANGED <<buffer, span, split, done, part, eof>>
  BY DEF readVars
<1>2. StreamTypeOK'
  BY <1>1 DEF StreamInductive, StreamTypeOK, Capacity
<1>3. RoomInv'
  BY <1>1 DEF StreamInductive, RoomInv, IsBuffer, Room, Capacity, Offset
<1>4. CountInv'
  BY <1>1 DEF StreamInductive, CountInv
<1>5. Transit' = Transit
  BY <1>1 DEF Transit, Kept, Uncommitted, BytesAt, Content, Readable, ReadableRegions, Region,
              Capacity, Least
<1> QED BY <1>2, <1>3, <1>4, <1>5 DEF StreamInductive

(* The steps of a call that move no byte.                                  *)
LEMMA QuietSteps ==
  ASSUME StreamInductive,
         \/ TryConnect \/ Handshake \/ CallConnect \/ CallAccept \/ TryAccept
         \/ \E n \in 1..MaxRequest : \E f \in {"write_some", "write_all"} : CallWrite(f, n)
         \/ \E e \in Ends : Resume(e) \/ ThrowClosed(e) \/ Cancel(e) \/ Close(e)
  PROVE  StreamInductive' /\ Transit' = Transit /\ UNCHANGED <<sent, taken>>
<1> USE DEF Goto, Ends
<1>1. StreamTypeOK /\ CallInv /\ CountInv
  BY DEF StreamInductive
<1>2. CASE TryConnect
  BY <1>1, <1>2, QuietStep DEF TryConnect, InCall, StreamTypeOK, CallInv, CountInv, readVars
<1>3. CASE Handshake
  BY <1>1, <1>3, QuietStep DEF Handshake, callVars, readVars, StreamTypeOK, CallInv, CountInv
<1>4. CASE CallConnect
  BY <1>1, <1>4, QuietStep DEF CallConnect, Call, linkVars, readVars, StreamTypeOK, CallInv, CountInv
<1>5. CASE CallAccept
  BY <1>1, <1>5, QuietStep DEF CallAccept, Call, linkVars, readVars, StreamTypeOK, CallInv, CountInv
<1>6. CASE TryAccept
  BY <1>1, <1>6, QuietStep DEF TryAccept, InCall, linkVars, readVars, StreamTypeOK, CallInv, CountInv
<1>7. ASSUME NEW n \in 1..MaxRequest, NEW f \in {"write_some", "write_all"}, CallWrite(f, n)
      PROVE  StreamInductive' /\ Transit' = Transit /\ UNCHANGED <<sent, taken>>
  BY <1>1, <1>7, QuietStep, StreamAssumption
     DEF CallWrite, Call, linkVars, readVars, StreamTypeOK, CallInv, CountInv
<1>8. ASSUME NEW e \in Ends, Resume(e)
      PROVE  StreamInductive' /\ Transit' = Transit /\ UNCHANGED <<sent, taken>>
  BY <1>1, <1>8, QuietStep DEF Resume, linkVars, readVars, StreamTypeOK, CallInv, CountInv
<1>9. ASSUME NEW e \in Ends, ThrowClosed(e)
      PROVE  StreamInductive' /\ Transit' = Transit /\ UNCHANGED <<sent, taken>>
  BY <1>1, <1>9, QuietStep DEF ThrowClosed, linkVars, readVars, StreamTypeOK, CallInv, CountInv
<1>10. ASSUME NEW e \in Ends, Cancel(e)
       PROVE  StreamInductive' /\ Transit' = Transit /\ UNCHANGED <<sent, taken>>
  BY <1>1, <1>10, QuietStep DEF Cancel, linkVars, readVars, StreamTypeOK, CallInv, CountInv
<1>11. ASSUME NEW e \in Ends, Close(e)
       PROVE  StreamInductive' /\ Transit' = Transit /\ UNCHANGED <<sent, taken>>
  BY <1>1, <1>11, QuietStep DEF Close, callVars, readVars, StreamTypeOK, CallInv, CountInv
<1> QED
  BY <1>2, <1>3, <1>4, <1>5, <1>6, <1>7, <1>8, <1>9, <1>10, <1>11

(* With nothing uncommitted the content is kept.                           *)
LEMMA NothingUncommitted ==
  ASSUME NEW D, NEW b, IsBuffer(b, D), NEW s \in Seq(Nat)
  PROVE  /\ Content(b) \o BytesAt(b, SubSeq(s, 1, 0)) = Content(b)
         /\ Content(b) \in Seq(D) /\ Len(Content(b)) = b.size
<1>1. SubSeq(s, 1, 0) = <<>>
  BY SubSeqEmpty
<1>2. BytesAt(b, SubSeq(s, 1, 0)) = <<>>
  BY <1>1, BytesOfNone
<1>3. b.size \in Nat /\ b.size <= Capacity(b)
  BY DEF IsBuffer, Capacity
<1>4. Content(b) = Held(b, b.size)
  BY ReadableOffsets
<1>5. Content(b) \in Seq(D) /\ Len(Content(b)) = b.size
  BY <1>3, <1>4, HeldBytes
<1> QED BY <1>2, <1>5, ConcatEmptySeq

(* write() sends the bytes it takes off the caller's hands.                *)
LEMMA WriteStep ==
  ASSUME StreamInductive, Write
  PROVE  StreamInductive' /\ (Abstract!Send \/ (Transit' = Transit /\ UNCHANGED <<sent, taken>>))
<1>1. StreamTypeOK /\ RoomInv /\ CallInv /\ CountInv
  BY DEF StreamInductive
<1>2. CASE pc' = [pc EXCEPT !["client"] = "wait"] /\ UNCHANGED <<pipe, sent, want>>
  BY <1>1, <1>2, QuietStep
     DEF Write, Ends, linkVars, readVars, StreamTypeOK, CallInv, CountInv
<1>3. CASE pc' = [pc EXCEPT !["client"] = "ended"] /\ UNCHANGED <<pipe, sent, want>>
  BY <1>1, <1>3, QuietStep
     DEF Write, Ends, linkVars, readVars, StreamTypeOK, CallInv, CountInv
<1>4. ASSUME NEW n \in 1..Least(want, PipeCapacity - Len(pipe)),
             pipe' = pipe \o [i \in 1..n |-> sent + i], sent' = sent + n, want' = want - n,
             Goto("client", IF op["client"] = "write_some" \/ want = n THEN "idle" ELSE "call")
      PROVE  StreamInductive' /\ Abstract!Send
  <2>1. /\ UNCHANGED <<link, open, op, callCancelled, buffer, span, split, done, part, eof, taken>>
        /\ open["client"]
    BY DEF Write, InCall, linkVars, readVars
  <2>2. /\ Total \in Nat /\ PipeCapacity \in Nat /\ want \in Nat /\ sent \in Nat /\ Len(pipe) \in Nat
        /\ want <= MaxRequest /\ MaxRequest \in Nat
        /\ want <= Total - sent /\ sent <= Total /\ pipe \in Seq(1..Total)
    BY <1>1, StreamAssumption DEF StreamTypeOK, CountInv
  <2>3. n \in Nat /\ n >= 1 /\ n <= want /\ n <= PipeCapacity - Len(pipe)
    BY <2>2 DEF Least
  <2> DEFINE w == [i \in 1..n |-> sent + i]
  <2>4. w \in Seq(1..Total) /\ Len(w) = n
    <3>1. w \in [1..n -> 1..Total]
      BY <2>2, <2>3
    <3> HIDE DEF w
    <3> QED BY <2>3, <3>1, FunctionIsSeq
  <2>5. pipe' = pipe \o w
    BY <1>4
  <2> HIDE DEF w
  <2>6. pipe' \in Seq(1..Total) /\ Len(pipe') = Len(pipe) + n
    BY <2>2, <2>4, <2>5, ConcatProperties
  <2>7. StreamTypeOK'
    <3>1. pc' \in [Ends -> {"start", "call", "wait", "returned", "idle", "ended"}]
      BY <1>1, <1>4 DEF StreamTypeOK, Goto
    <3>2. want' \in 0..MaxRequest /\ sent' \in 0..Total /\ Len(pipe') <= PipeCapacity
      BY <1>4, <2>2, <2>3, <2>6
    <3> QED BY <1>1, <2>1, <2>6, <3>1, <3>2 DEF StreamTypeOK, Capacity
  <2>8. RoomInv'
    BY <1>1, <2>1 DEF RoomInv, IsBuffer, Room, Capacity, Offset
  <2>9. CallInv'
    BY <1>1, <1>4, <2>1 DEF CallInv, Goto, StreamTypeOK, Ends
  <2>10. CountInv'
    <3>1. ~eof
      BY <1>1, <2>1 DEF CountInv
    <3>2. Len(taken) \in Nat /\ buffer.size \in Nat /\ done \in Nat /\ part \in Nat
      BY <1>1 DEF CountInv, RoomInv, IsBuffer
    <3>3. Len(taken) + (buffer.size + (done + part)) + Len(pipe') = sent'
      <4>1. PICK a \in Nat : a = Len(taken) + (buffer.size + (done + part))
        BY <3>2
      <4>2. a + Len(pipe) = sent
        BY <1>1, <4>1 DEF CountInv
      <4>3. a + Len(pipe') = sent'
        BY <1>4, <2>2, <2>3, <2>6, <4>2, SMTT(60)
      <4> QED BY <4>1, <4>3
    <3>4. want' <= Total - sent'
      BY <1>4, <2>2, <2>3
    <3> QED BY <1>1, <2>1, <3>1, <3>3, <3>4 DEF CountInv
  <2>11. Kept' = Kept
    BY <2>1 DEF Kept, Uncommitted, BytesAt, Content, Readable, ReadableRegions, Region,
                Capacity, Least
  <2>12. Transit' = Transit \o w
    <3> DEFINE k == Kept
    <3>1. k \in Seq(0..Total) /\ pipe \in Seq(0..Total) /\ w \in Seq(0..Total)
      BY <2>2, <2>4, KeptNow, PipeBytes
    <3>2. Transit' = k \o (pipe \o w) /\ Transit = k \o pipe
      BY <2>5, <2>11 DEF Transit
    <3> HIDE DEF k
    <3>3. (k \o pipe) \o w = k \o (pipe \o w)
      BY <3>1, ConcatAssociative
    <3> QED BY <3>2, <3>3
  <2>13. Abstract!Send
    <3>1. n \in 1..(Total - sent)
      BY <2>2, <2>3
    <3> QED BY <1>4, <2>1, <2>12, <3>1 DEF Abstract!Send, Transit, Kept, w
  <2> QED BY <2>7, <2>8, <2>9, <2>10, <2>13 DEF StreamInductive
<1> QED BY <1>2, <1>3, <1>4 DEF Write, Goto

(* What is prepared for a read leaves the content alone.                   *)
LEMMA CallReadStep ==
  ASSUME StreamInductive, NEW n \in 1..MaxRequest, NEW f \in {"read_some", "read_exact"},
         CallRead(f, n)
  PROVE  StreamInductive' /\ Transit' = Transit /\ UNCHANGED <<sent, taken>>
<1>1. StreamTypeOK /\ RoomInv /\ CallInv /\ CountInv
  BY DEF StreamInductive
<1>2. /\ pc["server"] = "idle" /\ ~eof
      /\ pc' = [pc EXCEPT !["server"] = "call"] /\ op' = [op EXCEPT !["server"] = f]
      /\ callCancelled' = [callCancelled EXCEPT !["server"] = FALSE]
      /\ done' = 0 /\ part' = 0
      /\ UNCHANGED <<link, open, pipe, want, eof, sent, taken>>
  BY DEF CallRead, Call, Goto, linkVars
<1>3. span = <<>> /\ done = 0 /\ part = 0 /\ IsBuffer(buffer, 0..Total) /\ buffer.size \in Nat
  BY <1>1, <1>2 DEF CallInv, RoomInv, IsBuffer
<1>4. n \in Nat /\ n > 0 /\ 0 \in 0..Total
  BY StreamAssumption
<1>5. /\ IsBuffer(buffer', 0..Total) /\ buffer'.size = buffer.size
      /\ Content(buffer') = Content(buffer) /\ buffer.size + n <= Capacity(buffer')
      /\ span' = Room(buffer', n) /\ split' \in 0..n
  <2>1. CASE /\ buffer' = PrepareContiguous(buffer, n)
             /\ span' = ContiguousSpan(buffer', n) /\ split' = n
    <3>1. /\ IsBuffer(PrepareContiguous(buffer, n), 0..Total)
          /\ PrepareContiguous(buffer, n).size = buffer.size
          /\ buffer.size + n <= Capacity(PrepareContiguous(buffer, n))
          /\ Content(PrepareContiguous(buffer, n)) = Content(buffer)
          /\ ContiguousSpan(PrepareContiguous(buffer, n), n) = Room(PrepareContiguous(buffer, n), n)
      BY <1>3, <1>4, PrepareKeeps
    <3> QED BY <1>4, <2>1, <3>1
  <2>2. CASE /\ buffer' = EnsureWritable(buffer, n)
             /\ LET regions == WritableRegions(buffer', n) IN
                  span' = regions[1] \o regions[2] /\ split' = Len(regions[1])
    <3>1. /\ IsBuffer(buffer', 0..Total) /\ buffer'.size = buffer.size
          /\ Content(buffer') = Content(buffer) /\ buffer'.size + n <= Capacity(buffer')
      <4>1. /\ IsBuffer(EnsureWritable(buffer, n), 0..Total)
            /\ EnsureWritable(buffer, n).size = buffer.size
            /\ EnsureWritable(buffer, n).size + n <= Capacity(EnsureWritable(buffer, n))
            /\ Content(EnsureWritable(buffer, n)) = Content(buffer)
        BY <1>3, <1>4, EnsureKeeps
      <4> QED BY <2>2, <4>1
    <3>2. /\ WritableRegions(buffer', n)[1] \o WritableRegions(buffer', n)[2] = Room(buffer', n)
          /\ Len(WritableRegions(buffer', n)[1]) \in 0..n
      BY <1>4, <3>1, RegionsAreRoom
    <3> QED BY <2>2, <3>1, <3>2
  <2> QED BY <2>1, <2>2 DEF CallRead
<1>6. span' \in Seq(Nat) /\ Len(span') = n
  <2>1. buffer'.size + n <= Capacity(buffer')
    BY <1>5
  <2>2. Room(buffer', n) \in Seq(Nat) /\ Len(Room(buffer', n)) = n
    BY <1>4, <1>5, <2>1, RoomOffsets
  <2> QED BY <1>5, <2>2
<1>7. StreamTypeOK'
  <2>1. buffer'.storage \in Seq(0..Total) /\ buffer'.size <= Capacity(buffer')
    BY <1>5 DEF IsBuffer, Capacity
  <2>2. /\ pc' \in [Ends -> {"start", "call", "wait", "returned", "idle", "ended"}]
        /\ op' \in [Ends -> {"none", "connect", "accept", "write_some", "write_all",
                             "read_some", "read_exact"}]
        /\ callCancelled' \in [Ends -> BOOLEAN]
    BY <1>1, <1>2 DEF StreamTypeOK
  <2>3. split' <= Len(span') /\ done' + part' <= Len(span')
    BY <1>2, <1>4, <1>5, <1>6
  <2> QED BY <1>1, <1>2, <1>6, <2>1, <2>2, <2>3 DEF StreamTypeOK
<1>8. RoomInv'
  BY <1>2, <1>4, <1>5, <1>6 DEF RoomInv
<1>9. CallInv'
  BY <1>1, <1>2 DEF CallInv, StreamTypeOK, Ends
<1>10. CountInv'
  BY <1>1, <1>2, <1>3, <1>5 DEF CountInv
<1>11. Transit' = Transit
  <2>1. done + part = 0 /\ done' + part' = 0 /\ span \in Seq(Nat)
    BY <1>1, <1>2, <1>3 DEF StreamTypeOK
  <2>2. Content(buffer) \o BytesAt(buffer, SubSeq(span, 1, 0)) = Content(buffer)
    BY <1>3, <2>1, NothingUncommitted
  <2>3. Content(buffer') \o BytesAt(buffer', SubSeq(span', 1, 0)) = Content(buffer')
    BY <1>5, <1>6, NothingUncommitted
  <2>4. Kept = Content(buffer) /\ Kept' = Content(buffer')
    BY <2>1, <2>2, <2>3 DEF Kept, Uncommitted
  <2> QED BY <1>2, <1>5, <2>4 DEF Transit
<1> QED BY <1>2, <1>7, <1>8, <1>9, <1>10, <1>11 DEF StreamInductive

(* read() moves bytes from the pipe to the span, behind those it has.      *)
LEMMA ReadBytesStep ==
  ASSUME StreamInductive, ReadBytes
  PROVE  StreamInductive' /\ Transit' = Transit /\ UNCHANGED <<sent, taken>>
<1>1. StreamTypeOK /\ RoomInv /\ CallInv /\ CountInv
  BY DEF StreamInductive
<1>2. /\ pc["server"] = "call" /\ op["server"] \in {"read_some", "read_exact"}
      /\ UNCHANGED <<link, open, op, callCancelled, want, span, split, eof, sent, taken>>
  BY DEF ReadBytes, InCall, linkVars
<1>3. PICK n \in 1..Least(Len(pipe), Goal - done - part) :
        /\ Store(SubSeq(pipe, 1, n))
        /\ pipe' = SubSeq(pipe, n + 1, Len(pipe))
        /\ IF op["server"] = "read_some" \/ done + part + n = Goal
             THEN done' = done + part + n /\ part' = 0 /\ Goto("server", "returned")
             ELSE part' = part + n /\ UNCHANGED <<done, pc>>
  BY DEF ReadBytes
<1>4. /\ IsBuffer(buffer, 0..Total) /\ span = Room(buffer, Len(span)) /\ span \in Seq(Nat)
      /\ Len(span) \in Nat /\ buffer.size + Len(span) <= Capacity(buffer)
      /\ done \in Nat /\ part \in Nat /\ split \in Nat /\ split <= Len(span)
      /\ pipe \in Seq(1..Total) /\ Len(pipe) \in Nat /\ Len(pipe) <= PipeCapacity
      /\ buffer.size \in Nat /\ PipeCapacity \in Nat
  BY <1>1, StreamAssumption, SMTT(60) DEF StreamTypeOK, RoomInv, IsBuffer
<1>5. n \in Nat /\ n > 0 /\ n <= Len(pipe) /\ done + part + n <= Len(span)
  BY <1>4 DEF Least, Goal
<1> DEFINE t == SubSeq(pipe, 1, n)
           u == SubSeq(pipe, n + 1, Len(pipe))
<1>6. /\ t \in Seq(1..Total) /\ Len(t) = n /\ u \in Seq(1..Total) /\ Len(u) = Len(pipe) - n
      /\ t \o u = pipe
  BY <1>4, <1>5, CutInTwo
<1>7. /\ t \in Seq(0..Total) /\ u \in Seq(0..Total) /\ pipe' = u
      /\ buffer' = [buffer EXCEPT !.storage = Stored(buffer, span, done + part, t)]
  BY <1>3, <1>6, PipeBytes DEF Store, Stored
<1> HIDE DEF t, u
<1>8. PICK o \in Nat : o = done + part /\ o + n <= Len(span)
  BY <1>4, <1>5
<1>9. /\ IsBuffer(buffer', 0..Total) /\ Capacity(buffer') = Capacity(buffer)
      /\ buffer'.size = buffer.size /\ Room(buffer', Len(span)) = span
      /\ Held(buffer', buffer.size + (o + n)) = Held(buffer, buffer.size + o) \o t
  <2>1. buffer' = [buffer EXCEPT !.storage = Stored(buffer, span, o, t)] /\ o + Len(t) <= Len(span)
    BY <1>6, <1>7, <1>8
  <2>2. /\ IsBuffer(buffer', 0..Total) /\ Capacity(buffer') = Capacity(buffer)
        /\ buffer'.size = buffer.size /\ Room(buffer', Len(span)) = span
        /\ Held(buffer', buffer.size + (o + Len(t))) = Held(buffer, buffer.size + o) \o t
    <3> DEFINE b == buffer
               m == Len(span)
               B == 0..Total
    <3>1. IsBuffer(b, B) /\ m \in Nat /\ b.size + m <= Capacity(b) /\ o + Len(t) <= m /\ t \in Seq(B)
      BY <1>4, <1>7, <2>1
    <3>2. span = Room(b, m) /\ buffer' = WithStored(b, m, o, t)
      BY <1>4, <2>1 DEF WithStored
    <3> HIDE DEF b, m, B
    <3>3. /\ IsBuffer(WithStored(b, m, o, t), B)
          /\ Capacity(WithStored(b, m, o, t)) = Capacity(b)
          /\ WithStored(b, m, o, t).size = b.size
          /\ Room(WithStored(b, m, o, t), m) = Room(b, m)
          /\ Held(WithStored(b, m, o, t), b.size + (o + Len(t))) = Held(b, b.size + o) \o t
      BY <3>1, StoredBytes
    <3> QED BY <3>2, <3>3 DEF b, m, B
  <2> QED BY <1>6, <2>2
<1>10. /\ done' \in Nat /\ part' \in Nat /\ done' + part' = o + n
       /\ done' + part' = done + part + n
       /\ pc' \in [Ends -> {"start", "call", "wait", "returned", "idle", "ended"}]
       /\ pc'["server"] \in {"call", "returned"}
       /\ part' # 0 => op["server"] = "read_exact" /\ pc'["server"] = "call"
  <2>1. /\ pc \in [Ends -> {"start", "call", "wait", "returned", "idle", "ended"}]
        /\ pc["server"] = "call" /\ "server" \in Ends
    BY <1>1, <1>2 DEF StreamTypeOK, Ends
  <2>2. CASE op["server"] = "read_some" \/ done + part + n = Goal
    <3>1. done' = done + part + n /\ part' = 0 /\ pc' = [pc EXCEPT !["server"] = "returned"]
      BY <1>3, <2>2 DEF Goto
    <3>2. done' \in Nat /\ part' \in Nat /\ done' + part' = o + n /\ done' + part' = done + part + n
      BY <1>4, <1>5, <1>8, <3>1
    <3> QED BY <2>1, <3>1, <3>2
  <2>3. CASE ~(op["server"] = "read_some" \/ done + part + n = Goal)
    <3>1. done' = done /\ part' = part + n /\ pc' = pc /\ op["server"] = "read_exact"
      BY <1>2, <1>3, <2>3
    <3>2. done' \in Nat /\ part' \in Nat /\ done' + part' = o + n /\ done' + part' = done + part + n
      BY <1>4, <1>5, <1>8, <3>1
    <3> QED BY <2>1, <3>1, <3>2
  <2> QED BY <2>2, <2>3
<1>11. StreamTypeOK'
  <2>1. buffer'.storage \in Seq(0..Total) /\ buffer'.size <= Capacity(buffer')
    BY <1>9 DEF IsBuffer, Capacity
  <2>2. pipe' \in Seq(1..Total) /\ Len(pipe') <= PipeCapacity
    BY <1>4, <1>5, <1>6, <1>7
  <2>3. split' <= Len(span') /\ done' + part' <= Len(span')
    BY <1>2, <1>4, <1>5, <1>10
  <2> QED BY <1>1, <1>2, <1>10, <2>1, <2>2, <2>3 DEF StreamTypeOK
<1>12. RoomInv'
  BY <1>2, <1>4, <1>9, <1>10 DEF RoomInv
<1>13. CallInv'
  BY <1>1, <1>2, <1>10 DEF CallInv
<1>14. CountInv'
  <2>1. Len(taken) \in Nat /\ Len(taken) + (buffer.size + (done + part)) + Len(pipe) = sent
    BY <1>1 DEF CountInv
  <2>2. Len(taken') + (buffer'.size + (done' + part')) + Len(pipe') = sent'
    <3>1. PICK a \in Nat, k \in Nat : a = Len(taken) /\ k = buffer.size + (done + part)
      BY <1>4, <2>1
    <3>2. buffer'.size + (done' + part') = k + n
      <4>1. done' + part' = o + n /\ o = done + part /\ buffer'.size = buffer.size
        BY <1>8, <1>9, <1>10
      <4>2. buffer.size + (o + n) = (buffer.size + o) + n
        BY <1>4, <1>5
      <4> QED BY <3>1, <4>1, <4>2
    <3>3. taken' = taken /\ sent' = sent /\ Len(pipe') = Len(pipe) - n
      BY <1>2, <1>6, <1>7
    <3>4. a + k + Len(pipe) = sent
      BY <2>1, <3>1
    <3>5. a + (k + n) + (Len(pipe) - n) = sent
      BY <1>4, <1>5, <3>4
    <3> QED BY <3>1, <3>2, <3>3, <3>5
  <2>3. pipe # <<>>
    BY <1>4, <1>5
  <2> QED BY <1>1, <1>2, <2>2, <2>3 DEF CountInv
<1>15. Transit' = Transit
  <2> DEFINE k == Kept
  <2>1. k = Held(buffer, buffer.size + o) /\ k \in Seq(0..Total)
    BY <1>8, KeptNow
  <2>2. Kept' = Held(buffer', buffer.size + (o + n))
    <3>1. /\ span = Room(buffer', Len(span)) /\ buffer'.size + Len(span) <= Capacity(buffer')
          /\ o + n \in Nat /\ o + n <= Len(span)
      BY <1>4, <1>5, <1>8, <1>9
    <3>2. Content(buffer') \o BytesAt(buffer', SubSeq(span, 1, o + n))
            = Held(buffer', buffer'.size + (o + n))
      <4> DEFINE b == buffer'
                 s == span
      <4>1. /\ IsBuffer(b, 0..Total) /\ s \in Seq(Nat) /\ s = Room(b, Len(s))
            /\ b.size + Len(s) <= Capacity(b)
        BY <1>4, <1>9, <3>1
      <4> HIDE DEF b, s
      <4>2. PICK m \in Nat : m = o + n /\ m <= Len(s)
        BY <3>1 DEF s
      <4>3. Content(b) \o BytesAt(b, SubSeq(s, 1, m)) = Held(b, b.size + m)
        BY <4>1, <4>2, KeptHeld, ZenonT(60)
      <4> QED BY <4>2, <4>3 DEF b, s
    <3> QED BY <1>2, <1>9, <1>10, <3>2 DEF Kept, Uncommitted
  <2>3. Kept' = k \o t
    BY <1>9, <2>1, <2>2
  <2>4. Transit' = (k \o t) \o u /\ Transit = k \o (t \o u)
    BY <1>6, <1>7, <2>3 DEF Transit
  <2> HIDE DEF k
  <2>5. (k \o t) \o u = k \o (t \o u)
    BY <1>7, <2>1, ConcatAssociative, SMTT(60)
  <2> QED BY <2>4, <2>5
<1> QED BY <1>2, <1>11, <1>12, <1>13, <1>14, <1>15 DEF StreamInductive

(* read() finds nothing, for now or for ever.                              *)
LEMMA ReadNothingStep ==
  ASSUME StreamInductive, ReadNothing
  PROVE  StreamInductive' /\ Transit' = Transit /\ UNCHANGED <<sent, taken>>
<1>1. StreamTypeOK /\ RoomInv /\ CallInv /\ CountInv
  BY DEF StreamInductive
<1>2. CASE open["client"]
  BY <1>1, <1>2, QuietStep
     DEF ReadNothing, InCall, Goto, Ends, linkVars, readVars, StreamTypeOK, CallInv, CountInv
<1>3. CASE ~open["client"]
  <2>1. /\ pc["server"] = "call" /\ op["server"] \in {"read_some", "read_exact"} /\ pipe = <<>>
        /\ done' = done + part /\ part' = 0 /\ eof' = TRUE
        /\ pc' = [pc EXCEPT !["server"] = "returned"]
        /\ UNCHANGED <<link, open, op, callCancelled, buffer, span, split, pipe, want, sent, taken>>
    BY <1>3 DEF ReadNothing, InCall, Goto, linkVars
  <2>2. done \in Nat /\ part \in Nat /\ done' + part' = done + part /\ done' \in Nat
    BY <1>1, <2>1 DEF RoomInv
  <2>3. StreamTypeOK'
    BY <1>1, <2>1, <2>2 DEF StreamTypeOK, Capacity
  <2>4. RoomInv'
    BY <1>1, <2>1, <2>2 DEF RoomInv, IsBuffer, Room, Capacity, Offset
  <2>5. CallInv'
    BY <1>1, <2>1 DEF CallInv, StreamTypeOK, Ends
  <2>6. CountInv'
    <3>1. Len(taken) \in Nat /\ buffer.size \in Nat /\ Len(pipe) \in Nat
          /\ Len(taken) + (buffer.size + (done + part)) + Len(pipe) = sent
      BY <1>1, <2>1 DEF CountInv, RoomInv, IsBuffer
    <3>2. Len(taken') + (buffer'.size + (done' + part')) + Len(pipe') = sent'
      BY <2>1, <2>2, <3>1
    <3> QED BY <1>1, <1>3, <2>1, <3>2 DEF CountInv
  <2>7. Transit' = Transit
    BY <2>1, <2>2 DEF Transit, Kept, Uncommitted, BytesAt, Content, Readable, ReadableRegions,
                      Region, Capacity, Least
  <2> QED BY <2>1, <2>3, <2>4, <2>5, <2>6, <2>7 DEF StreamInductive
<1> QED BY <1>2, <1>3

-----------------------------------------------------------------------------
(* commit() makes what was read part of the content.                       *)
LEMMA CommitStep ==
  ASSUME StreamInductive, part = 0,
         buffer' = Commit(buffer, done), span' = <<>>, split' = 0, done' = 0,
         UNCHANGED <<link, open, op, callCancelled, part, eof, pipe, want, sent, taken>>,
         pc' \in [Ends -> {"start", "call", "wait", "returned", "idle", "ended"}],
         CallInv'
  PROVE  StreamInductive' /\ Transit' = Transit
<1>1. StreamTypeOK /\ RoomInv /\ CallInv /\ CountInv
  BY DEF StreamInductive
<1>2. /\ IsBuffer(buffer, 0..Total) /\ span = Room(buffer, Len(span)) /\ span \in Seq(Nat)
      /\ Len(span) \in Nat /\ buffer.size + Len(span) <= Capacity(buffer)
      /\ done \in Nat /\ done <= Len(span) /\ buffer.size \in Nat /\ done + part = done
      /\ buffer.size + done <= Capacity(buffer) /\ Capacity(buffer) \in Nat
  BY <1>1 DEF StreamTypeOK, RoomInv, IsBuffer, Capacity
<1>3. /\ IsBuffer(buffer', 0..Total) /\ buffer'.size = buffer.size + done
      /\ Content(buffer') = Held(buffer, buffer.size + done)
  BY <1>2, CommitKeeps
<1>4. span' \in Seq(Nat) /\ Len(span') = 0 /\ span' = Room(buffer', 0) /\ done' + part' = 0
  BY EmptySeq, RoomOfNone
<1>5. StreamTypeOK'
  <2>1. buffer'.storage \in Seq(0..Total) /\ buffer'.size <= Capacity(buffer')
    BY <1>3 DEF IsBuffer, Capacity
  <2>2. split' <= Len(span') /\ done' + part' <= Len(span')
    BY <1>4
  <2> QED BY <1>1, <1>4, <2>1, <2>2 DEF StreamTypeOK
<1>6. RoomInv'
  <2>1. buffer'.size + 0 <= Capacity(buffer')
    BY <1>3 DEF IsBuffer, Capacity
  <2> QED BY <1>3, <1>4, <2>1 DEF RoomInv
<1>7. CountInv'
  <2>1. Len(taken) \in Nat /\ Len(pipe) \in Nat
        /\ Len(taken) + (buffer.size + (done + part)) + Len(pipe) = sent
    BY <1>1 DEF CountInv, StreamTypeOK
  <2>2. Len(taken') + (buffer'.size + (done' + part')) + Len(pipe') = sent'
    BY <1>2, <1>3, <2>1
  <2> QED BY <1>1, <2>2 DEF CountInv
<1>8. Transit' = Transit
  <2>1. Kept = Held(buffer, buffer.size + done)
    BY <1>2, KeptNow
  <2>2. Content(buffer') \o BytesAt(buffer', SubSeq(span', 1, 0)) = Content(buffer')
    BY <1>3, <1>4, NothingUncommitted
  <2>3. Kept' = Content(buffer')
    BY <1>4, <2>2 DEF Kept, Uncommitted
  <2> QED BY <1>3, <2>1, <2>3 DEF Transit
<1> QED BY <1>5, <1>6, <1>7, <1>8 DEF StreamInductive

(* The caller goes on with the second region, or commits.                  *)
LEMMA ReturnedStep ==
  ASSUME StreamInductive, Returned
  PROVE  StreamInductive' /\ Transit' = Transit /\ UNCHANGED <<sent, taken>>
<1>1. StreamTypeOK /\ RoomInv /\ CallInv /\ CountInv
  BY DEF StreamInductive
<1>2. CASE done = split /\ split < Len(span) /\ ~eof
  BY <1>1, <1>2, QuietStep
     DEF Returned, Goto, Ends, linkVars, readVars, StreamTypeOK, CallInv, CountInv
<1>3. CASE ~(done = split /\ split < Len(span) /\ ~eof)
  <2>1. /\ pc["server"] = "returned" /\ pc' = [pc EXCEPT !["server"] = "idle"]
        /\ buffer' = Commit(buffer, done) /\ span' = <<>> /\ split' = 0 /\ done' = 0
        /\ UNCHANGED <<link, open, op, callCancelled, part, eof, pipe, want, sent, taken>>
    BY <1>3 DEF Returned, Goto, linkVars
  <2>2. part = 0
    BY <1>1, <2>1 DEF CallInv
  <2>3. pc' \in [Ends -> {"start", "call", "wait", "returned", "idle", "ended"}]
    BY <1>1, <2>1 DEF StreamTypeOK
  <2>4. CallInv'
    BY <1>1, <2>1, <2>2 DEF CallInv, StreamTypeOK, Ends
  <2> QED BY <2>1, <2>2, <2>3, <2>4, CommitStep
<1> QED BY <1>2, <1>3

(* A cancelled call commits what earlier calls returned, or gives up.      *)
LEMMA ThrowCancelledStep ==
  ASSUME StreamInductive, NEW e \in Ends, ThrowCancelled(e)
  PROVE  StreamInductive' /\ Transit' = Transit /\ UNCHANGED <<sent, taken>>
<1>1. StreamTypeOK /\ RoomInv /\ CallInv /\ CountInv
  BY DEF StreamInductive
<1>2. CASE op[e] = "read_some"
  <2>1. /\ e = "server" /\ pc' = [pc EXCEPT !["server"] = "idle"]
        /\ buffer' = Commit(buffer, done) /\ span' = <<>> /\ split' = 0 /\ done' = 0
        /\ UNCHANGED <<link, open, op, callCancelled, part, eof, pipe, want, sent, taken>>
    BY <1>1, <1>2 DEF ThrowCancelled, Goto, linkVars, Ends, CallInv
  <2>2. part = 0
    BY <1>1, <1>2, <2>1 DEF CallInv
  <2>3. pc' \in [Ends -> {"start", "call", "wait", "returned", "idle", "ended"}]
    BY <1>1, <2>1 DEF StreamTypeOK
  <2>4. CallInv'
    BY <1>1, <2>1, <2>2 DEF CallInv, StreamTypeOK, Ends
  <2> QED BY <2>1, <2>2, <2>3, <2>4, CommitStep
<1>3. CASE op[e] # "read_some"
  <2>1. UNCHANGED <<readVars, link, open, op, callCancelled, pipe, want, sent, taken>>
    BY <1>3 DEF ThrowCancelled, linkVars, readVars
  <2>2. \E q \in {"start", "idle", "ended"} :
          /\ pc' = [pc EXCEPT ![e] = q]
          /\ q = "start" => op[e] \in {"connect", "accept"}
          /\ q = "idle" => op[e] = "write_some"
    BY <1>3 DEF ThrowCancelled, Goto
  <2>3. pc' \in [Ends -> {"start", "call", "wait", "returned", "idle", "ended"}]
    BY <1>1, <2>2 DEF StreamTypeOK
  <2>4. CallInv'
    BY <1>1, <2>1, <2>2 DEF CallInv, StreamTypeOK, Ends, readVars
  <2> QED BY <1>1, <2>1, <2>3, <2>4, QuietStep DEF StreamTypeOK, CountInv
<1> QED BY <1>2, <1>3

-----------------------------------------------------------------------------
(* consume() takes the first bytes in flight.                              *)
LEMMA ConsumeStep ==
  ASSUME StreamInductive, NEW n \in 1..buffer.size, ConsumeBytes(n)
  PROVE  StreamInductive' /\ Abstract!Take
<1>1. StreamTypeOK /\ RoomInv /\ CallInv /\ CountInv
  BY DEF StreamInductive
<1>2. /\ pc["server"] = "idle"
      /\ taken' = taken \o SubSeq(Content(buffer), 1, n) /\ buffer' = Consume(buffer, n)
      /\ UNCHANGED <<link, open, pc, op, callCancelled, span, split, done, part, eof,
                     pipe, want, sent>>
  BY DEF ConsumeBytes, linkVars, callVars
<1>3. /\ IsBuffer(buffer, 0..Total) /\ buffer.size \in Nat
      /\ span = <<>> /\ done = 0 /\ part = 0 /\ done + part = 0 /\ span \in Seq(Nat)
      /\ pipe \in Seq(0..Total) /\ Len(pipe) \in Nat
      /\ taken \in Seq(0..Total)
  BY <1>1, <1>2, PipeBytes DEF CallInv, RoomInv, IsBuffer, StreamTypeOK, CountInv
<1>4. n \in Nat /\ n > 0 /\ n <= buffer.size
  BY <1>3
<1>5. /\ IsBuffer(buffer', 0..Total) /\ buffer'.size = buffer.size - n
      /\ Content(buffer') = SubSeq(Content(buffer), n + 1, buffer.size)
  <2>1. /\ IsBuffer(Consume(buffer, n), 0..Total) /\ Consume(buffer, n).size = buffer.size - n
        /\ Content(Consume(buffer, n)) = SubSeq(Content(buffer), n + 1, buffer.size)
    BY <1>3, <1>4, ConsumeKeeps
  <2> QED BY <1>2, <2>1
<1>6. /\ Content(buffer) \o BytesAt(buffer, SubSeq(span, 1, 0)) = Content(buffer)
      /\ Content(buffer) \in Seq(0..Total) /\ Len(Content(buffer)) = buffer.size
  BY <1>3, NothingUncommitted
<1>7. Content(buffer') \o BytesAt(buffer', SubSeq(span, 1, 0)) = Content(buffer')
  BY <1>3, <1>5, NothingUncommitted
<1>8. Kept = Content(buffer) /\ Kept' = Content(buffer')
  BY <1>2, <1>3, <1>6, <1>7 DEF Kept, Uncommitted
<1> DEFINE c == Content(buffer)
           d == Content(buffer')
           t == SubSeq(c, 1, n)
<1>9. t \in Seq(0..Total) /\ Len(t) = n
  BY <1>4, <1>6, CutInTwo
<1>10. taken' = taken \o t /\ d = SubSeq(c, n + 1, Len(c))
  BY <1>2, <1>5, <1>6
<1> HIDE DEF c, d, t
<1>11. taken' \in Seq(0..Total) /\ Len(taken') = Len(taken) + n
  BY <1>3, <1>9, <1>10, ConcatProperties
<1>12. StreamTypeOK'
  <2>1. buffer'.storage \in Seq(0..Total) /\ buffer'.size <= Capacity(buffer')
    BY <1>5 DEF IsBuffer, Capacity
  <2> QED BY <1>1, <1>2, <2>1 DEF StreamTypeOK
<1>13. RoomInv'
  <2>1. /\ span' = <<>> /\ Len(span') = 0 /\ span' = Room(buffer', 0)
        /\ buffer'.size + 0 <= Capacity(buffer')
    BY <1>2, <1>3, <1>5, RoomOfNone DEF IsBuffer, Capacity
  <2> QED BY <1>1, <1>2, <1>5, <2>1 DEF RoomInv
<1>14. CallInv'
  BY <1>1, <1>2 DEF CallInv
<1>15. CountInv'
  <2>1. PICK a \in Nat, k \in Nat, l \in Nat : a = Len(taken) /\ k = buffer.size /\ l = Len(pipe)
    BY <1>3
  <2>2. buffer.size + (done + part) = k /\ buffer'.size + (done' + part') = k - n /\ n <= k
    BY <1>2, <1>3, <1>4, <1>5, <2>1
  <2>3. a + k + l = sent
    BY <1>1, <2>1, <2>2 DEF CountInv
  <2>4. (a + n) + (k - n) + l = sent
    BY <1>4, <2>2, <2>3
  <2>5. Len(taken') + (buffer'.size + (done' + part')) + Len(pipe') = sent'
    BY <1>2, <1>11, <2>1, <2>2, <2>4
  <2> QED BY <1>1, <1>2, <1>11, <2>5 DEF CountInv
<1>16. Abstract!Take
  <2>1. Transit = c \o pipe /\ Transit' = d \o pipe
    BY <1>2, <1>8 DEF Transit, c, d
  <2>2. c \in Seq(0..Total) /\ n \in 1..Len(c)
    BY <1>4, <1>6 DEF c
  <2>3. /\ SubSeq(c \o pipe, 1, n) = SubSeq(c, 1, n)
        /\ SubSeq(c \o pipe, n + 1, Len(c \o pipe)) = SubSeq(c, n + 1, Len(c)) \o pipe
    BY <1>3, <2>2, FrontOfTwo
  <2>4. Len(c \o pipe) = Len(c) + Len(pipe)
    BY <1>3, <2>2, ConcatProperties
  <2>5. n \in 1..Len(Transit)
    BY <1>3, <2>1, <2>2, <2>4
  <2>6. /\ taken' = taken \o SubSeq(Transit, 1, n)
        /\ Transit' = SubSeq(Transit, n + 1, Len(Transit))
    BY <1>10, <2>1, <2>3 DEF t
  <2> QED BY <1>2, <2>5, <2>6 DEF Abstract!Take, Transit, Kept
<1> QED BY <1>12, <1>13, <1>14, <1>15, <1>16 DEF StreamInductive

-----------------------------------------------------------------------------
(* A step of the sockets keeps the invariant, and is a step of the stream  *)
(* of bytes or none.                                                       *)
LEMMA StreamStep ==
  ASSUME StreamInductive, [StreamNext]_connectionVars
  PROVE  /\ StreamInductive'
         /\ [Abstract!Send \/ Abstract!Take]_(Abstract!streamVars)
<1> DEFINE Still == Transit' = Transit /\ UNCHANGED <<sent, taken>>
<1>1. Still => UNCHANGED Abstract!streamVars
  BY DEF Abstract!streamVars, Transit, Kept
<1>2. CASE UNCHANGED connectionVars
  <2>1. UNCHANGED <<link, open, pc, op, callCancelled, readVars, pipe, want, sent, taken>>
    BY <1>2 DEF connectionVars, linkVars, callVars
  <2>2. CallInv'
    BY <2>1 DEF StreamInductive, CallInv, readVars
  <2>3. StreamInductive' /\ Still
    BY <2>1, <2>2, QuietStep DEF StreamInductive, StreamTypeOK, CountInv
  <2> QED BY <1>1, <2>3
<1>3. CASE ClientStep
  <2>1. "client" \in Ends
    BY DEF Ends
  <2>2. CASE Write
    BY <1>1, <2>2, WriteStep
  <2>3. CASE ThrowCancelled("client")
    BY <1>1, <2>1, <2>3, ThrowCancelledStep
  <2>4. CASE TryConnect \/ Resume("client") \/ ThrowClosed("client")
    BY <1>1, <2>1, <2>4, QuietSteps
  <2> QED BY <1>3, <2>2, <2>3, <2>4 DEF ClientStep
<1>4. CASE ServerStep
  <2>1. "server" \in Ends
    BY DEF Ends
  <2>2. CASE ReadBytes \/ ReadNothing \/ Returned
    BY <1>1, <2>2, ReadBytesStep, ReadNothingStep, ReturnedStep
  <2>3. CASE ThrowCancelled("server")
    BY <1>1, <2>1, <2>3, ThrowCancelledStep
  <2>4. CASE TryAccept \/ Resume("server") \/ ThrowClosed("server")
    BY <1>1, <2>1, <2>4, QuietSteps
  <2> QED BY <1>4, <2>2, <2>3, <2>4 DEF ServerStep
<1>5. CASE CallConnect \/ CallAccept \/ Handshake
  BY <1>1, <1>5, QuietSteps
<1>6. ASSUME NEW n \in 1..MaxRequest, NEW f \in {"write_some", "write_all"}, CallWrite(f, n)
      PROVE  StreamInductive' /\ Still
  BY <1>6, QuietSteps
<1>7. ASSUME NEW n \in 1..MaxRequest, NEW f \in {"read_some", "read_exact"}, CallRead(f, n)
      PROVE  StreamInductive' /\ Still
  BY <1>7, CallReadStep
<1>8. ASSUME NEW n \in 1..buffer.size, ConsumeBytes(n)
      PROVE  StreamInductive' /\ Abstract!Take
  BY <1>8, ConsumeStep
<1>9. ASSUME NEW e \in Ends, Cancel(e) \/ Close(e)
      PROVE  StreamInductive' /\ Still
  BY <1>9, QuietSteps
<1> HIDE DEF Still
<1> QED BY <1>1, <1>2, <1>3, <1>4, <1>5, <1>6, <1>7, <1>8, <1>9 DEF StreamNext

(* The inductive invariant is what the runs check, and more.               *)
LEMMA InductiveIsInvariant == StreamInductive => StreamInvariant
<1> SUFFICES ASSUME StreamInductive PROVE StreamInvariant
  OBVIOUS
<1>1. /\ StreamTypeOK /\ IsBuffer(buffer, 0..Total) /\ span \in Seq(Nat) /\ Len(span) \in Nat
      /\ span = Room(buffer, Len(span)) /\ buffer.size + Len(span) <= Capacity(buffer)
      /\ done + part \in Nat /\ done + part <= Len(span) /\ buffer.size \in Nat
      /\ Capacity(buffer) \in Nat
  BY DEF StreamInductive, StreamTypeOK, RoomInv, IsBuffer, Capacity
<1>2. SpanIsFree
  <2> DEFINE m == Len(span)
  <2>1. m \in Nat /\ span = Room(buffer, m) /\ buffer.size + m <= Capacity(buffer) /\ DOMAIN span = 1..m
    BY <1>1
  <2> HIDE DEF m
  <2>2. \A i \in 1..m : Room(buffer, m)[i] \in 0..(Capacity(buffer) - 1)
    BY <1>1, <2>1, RoomOffsets
  <2>3. Readable(Commit(buffer, m)) = Readable(buffer) \o Room(buffer, m)
    BY <1>1, <2>1, CommitRoom
  <2>4. \A i \in DOMAIN span : span[i] < Capacity(buffer)
    BY <1>1, <2>1, <2>2
  <2>5. Readable(Commit(buffer, Len(span))) = Readable(buffer) \o span
    BY <2>1, <2>3 DEF m
  <2> QED BY <2>4, <2>5 DEF SpanIsFree
<1>3. EofIsLast
  <2> SUFFICES ASSUME eof
               PROVE  pipe = <<>> /\ Len(taken \o Content(buffer) \o Uncommitted) = sent
    BY DEF EofIsLast
  <2> DEFINE c == Content(buffer)
             u == Uncommitted
  <2>1. /\ pipe = <<>> /\ taken \in Seq(0..Total)
        /\ Len(taken) + (buffer.size + (done + part)) + Len(pipe) = sent
    BY DEF StreamInductive, CountInv
  <2>2. /\ c \in Seq(0..Total) /\ Len(c) = buffer.size
        /\ u \in Seq(0..Total) /\ Len(u) = done + part
    <3> DEFINE m == Len(span)
               o == done + part
    <3>1. m \in Nat /\ span = Room(buffer, m) /\ buffer.size + m <= Capacity(buffer)
          /\ o \in Nat /\ o <= m
      BY <1>1
    <3> HIDE DEF m, o
    <3>2. /\ Content(buffer) \in Seq(0..Total) /\ Len(Content(buffer)) = buffer.size
          /\ BytesAt(buffer, SubSeq(Room(buffer, m), 1, o)) \in Seq(0..Total)
          /\ Len(BytesAt(buffer, SubSeq(Room(buffer, m), 1, o))) = o
      BY <1>1, <3>1, HeldMore
    <3> QED BY <3>1, <3>2 DEF Uncommitted, o
  <2> HIDE DEF c, u
  <2>3. taken \o c \in Seq(0..Total) /\ Len(taken \o c) = Len(taken) + Len(c)
    BY <2>1, <2>2, ConcatProperties
  <2>4. Len((taken \o c) \o u) = Len(taken \o c) + Len(u)
    BY <2>2, <2>3, ConcatProperties
  <2>5. Len(taken) + (buffer.size + (done + part)) = sent /\ Len(taken) \in Nat
    <3>1. Len(pipe) = 0 /\ Len(taken) \in Nat
      BY <2>1
    <3> QED BY <1>1, <2>1, <3>1
  <2>6. Len(taken \o c) + Len(u) = sent
    <3>1. (Len(taken) + buffer.size) + (done + part) = Len(taken) + (buffer.size + (done + part))
      BY <1>1, <2>5
    <3> QED BY <2>2, <2>3, <2>5, <3>1
  <2> QED BY <2>1, <2>4, <2>6 DEF c, u
<1> QED BY <1>1, <1>2, <1>3 DEF StreamInvariant

(* For every length of the stream, capacity of the kernel and of the first *)
(* buffer, and size of a request, and whatever is cancelled or closed: the *)
(* span a read goes to is free room in the ring and what commit() will     *)
(* publish, and the end is reported only behind the last byte.             *)
THEOREM StreamIsSafe == StreamSpec => []StreamInvariant
<1>1. StreamInit => StreamInductive
  BY StreamStarts
<1>2. StreamInductive /\ [StreamNext]_connectionVars => StreamInductive'
  BY StreamStep
<1>3. StreamInductive => StreamInvariant
  BY InductiveIsInvariant
<1> QED BY <1>1, <1>2, <1>3, PTL DEF StreamSpec

(* And what the server consumes is what the client sent, in order, with    *)
(* nothing lost, repeated or made up: the sockets and the byte_buffer      *)
(* implement a first-in first-out stream of bytes.                         *)
THEOREM SocketsAreByteStream == StreamSpec => ImplementsByteStream
<1>1. StreamInit => StreamInductive
  BY StreamStarts
<1>2. StreamInductive /\ [StreamNext]_connectionVars => StreamInductive'
  BY StreamStep
<1>3. StreamInit => Abstract!Init
  BY StreamStarts DEF StreamInit, Abstract!Init, Transit, Kept
<1>4. StreamInductive /\ [StreamNext]_connectionVars
        => [Abstract!Send \/ Abstract!Take]_(Abstract!streamVars)
  BY StreamStep
<1> QED BY <1>1, <1>2, <1>3, <1>4, PTL DEF StreamSpec, ImplementsByteStream, Abstract!Spec
=============================================================================
