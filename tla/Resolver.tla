------------------------------- MODULE Resolver -------------------------------
(***************************************************************************)
(* resolver::async_resolve() (net/resolver.hpp) and the worker thread of   *)
(* blocking_resolver (net/detail/blocking_resolver.hpp), over a            *)
(* cancellation_state that requests share with other registrations.        *)
(*                                                                         *)
(* A job's thread, the worker, the cancellers and the event loop run side  *)
(* by side; of the loop only its ready queue and the resume() are here,    *)
(* IoContext has the rest.  The awaiter lives in the frame of the          *)
(* coroutine, which may be resumed while its thread is on the way from the *)
(* registration to submit(); what that thread reads then is gone in the    *)
(* program, and here keeps its last contents.                              *)
(*                                                                         *)
(* The job owns its registration, whose callback owns the job: the two     *)
(* never let go of each other, so a job's callback is never deregistered.  *)
(***************************************************************************)
EXTENDS CancellationState

CONSTANTS Jobs,  \* the requests; those in Callbacks have a token
          NoJob

ASSUME ResolverAssumption == NoJob \notin Jobs

VARIABLES
  place,     \* where the coroutine of job j is
  thread,    \* where the thread that starts it is in await_suspend()
  got,       \* what await_resume() has returned or thrown
  completed, \* resolve_job::completed
  answer,    \* resolve_job::cancelled, result and exception
  body,      \* where j's cancellation callback is
  jobs,      \* blocking_resolver::jobs_
  wpc,       \* where the worker is
  hand,      \* the worker's local job
  stopping,  \* blocking_resolver::stopping_
  spc,       \* where the thread in ~blocking_resolver() is
  ready      \* io_context::ready_

awaiterVars  == <<place, thread, got>>
jobVars      == <<completed, answer, body>>
workerVars   == <<jobs, wpc, hand>>
stopVars     == <<stopping, spc>>
resolverVars == <<awaiterVars, jobVars, workerVars, stopVars, ready>>
vars         == <<cancellationVars, resolverVars>>

(* "resolved": what resolve_fn() returned or threw.                        *)
Answers == {"resolved", "cancelled"}

Init ==
  /\ CancellationInit
  /\ place = [j \in Jobs |-> "idle"] /\ thread = [j \in Jobs |-> "none"]
  /\ got = [j \in Jobs |-> "none"]
  /\ completed = [j \in Jobs |-> FALSE] /\ answer = [j \in Jobs |-> "none"]
  /\ body = [j \in Jobs |-> "claim"]
  /\ jobs = <<>> /\ wpc = "wait" /\ hand = NoJob
  /\ stopping = FALSE /\ spc = "idle"
  /\ ready = <<>>

ThreadGoto(j, to) == thread' = [thread EXCEPT ![j] = to]
EnqueueReady(j)   == ready' = Append(ready, j)

-----------------------------------------------------------------------------
(* co_await async_resolve_operation: a token that is already cancelled     *)
(* makes it throw.  Nobody starts a request once the singleton is being    *)
(* destroyed.                                                              *)
Resolve(j) ==
  /\ place[j] = "idle" /\ ~stopping
  /\ IF j \in Callbacks /\ cancelled
       THEN /\ place' = [place EXCEPT ![j] = "resumed"]
            /\ got' = [got EXCEPT ![j] = "cancelled"]
            /\ UNCHANGED thread
       ELSE /\ place' = [place EXCEPT ![j] = "waiting"]
            /\ ThreadGoto(j, IF j \in Callbacks THEN "register" ELSE "submit")
            /\ UNCHANGED got
  /\ UNCHANGED <<cancellationVars, jobVars, workerVars, stopVars, ready>>

(* cancellation_registration(), which may run the callback inline.         *)
RegisterJob(j) ==
  /\ thread[j] = "register"
  /\ \/ Register(j) \/ AddCallback(j)
     \/ InvokeInline(j) /\ (rpc[j] = "calling" => body[j] = "return")
  /\ ThreadGoto(j, IF rpc'[j] \in {"registered", "refused"} THEN "submit" ELSE "register")
  /\ UNCHANGED <<place, got, jobVars, workerVars, stopVars, ready>>

(* submit(): push_back() under the lock ...                                *)
Submit(j) ==
  /\ thread[j] = "submit"
  /\ jobs' = Append(jobs, j)
  /\ ThreadGoto(j, "notify")
  /\ UNCHANGED <<cancellationVars, place, got, jobVars, wpc, hand, stopVars, ready>>

(* ... and notify_one() after it.                                          *)
NotifyWorker(j) ==
  /\ thread[j] = "notify"
  /\ wpc' = IF wpc = "asleep" THEN "wait" ELSE wpc
  /\ ThreadGoto(j, "none")
  /\ UNCHANGED <<cancellationVars, place, got, jobVars, jobs, hand, stopVars, ready>>

AwaiterStep(j) == RegisterJob(j) \/ Submit(j) \/ NotifyWorker(j)

(* The body of the cancellation callback: the claim under the job's mutex, *)
(* then the queueing of the coroutine.                                     *)
Calling(j) == rpc[j] = "calling" \/ \E k \in Cancellers : kpc[k] = "calling" /\ Head(moved[k]) = j

CallbackClaim(j) ==
  /\ j \in Callbacks /\ body[j] = "claim" /\ Calling(j)
  /\ IF completed[j]
       THEN body' = [body EXCEPT ![j] = "return"] /\ UNCHANGED <<completed, answer>>
       ELSE /\ completed' = [completed EXCEPT ![j] = TRUE]
            /\ answer' = [answer EXCEPT ![j] = "cancelled"]
            /\ body' = [body EXCEPT ![j] = "enqueue"]
  /\ UNCHANGED <<cancellationVars, awaiterVars, workerVars, stopVars, ready>>

CallbackEnqueue(j) ==
  /\ body[j] = "enqueue" /\ Calling(j)
  /\ EnqueueReady(j)
  /\ body' = [body EXCEPT ![j] = "return"]
  /\ UNCHANGED <<cancellationVars, awaiterVars, completed, answer, workerVars, stopVars>>

CallbackBody(j) == CallbackClaim(j) \/ CallbackEnqueue(j)

-----------------------------------------------------------------------------
(* Mutant of WorkerTake: a stop ends the worker whatever is queued.        *)
WorkerTakeUnlessStopping ==
  /\ wpc = "wait"
  /\ IF stopping THEN wpc' = "exited" /\ UNCHANGED <<jobs, hand>>
     ELSE IF jobs = <<>> THEN wpc' = "asleep" /\ UNCHANGED <<jobs, hand>>
     ELSE wpc' = "look" /\ hand' = Head(jobs) /\ jobs' = Tail(jobs)
  /\ UNCHANGED <<cancellationVars, awaiterVars, jobVars, stopVars, ready>>

(* worker_loop(): wait for a job and take it; the queue is drained before  *)
(* a stop ends the worker.                                                 *)
WorkerTake ==
  /\ wpc = "wait"
  /\ IF jobs # <<>>
       THEN wpc' = "look" /\ hand' = Head(jobs) /\ jobs' = Tail(jobs)
       ELSE wpc' = (IF stopping THEN "exited" ELSE "asleep") /\ UNCHANGED <<jobs, hand>>
  /\ UNCHANGED <<cancellationVars, awaiterVars, jobVars, stopVars, ready>>

SpuriousWakeup ==
  /\ wpc = "asleep"
  /\ wpc' = "wait"
  /\ UNCHANGED <<cancellationVars, awaiterVars, jobVars, jobs, hand, stopVars, ready>>

WorkerGoto(to) ==
  /\ wpc' = to
  /\ hand' = IF to = "wait" THEN NoJob ELSE hand

(* A job that was cancelled meanwhile is skipped.                          *)
WorkerLook ==
  /\ wpc = "look"
  /\ WorkerGoto(IF completed[hand] THEN "wait" ELSE "resolve")
  /\ UNCHANGED <<cancellationVars, awaiterVars, jobVars, jobs, stopVars, ready>>

(* Mutant of WorkerPublish: completed is not looked at again.              *)
WorkerPublishAnyway ==
  /\ wpc = "resolve"
  /\ completed' = [completed EXCEPT ![hand] = TRUE]
  /\ answer' = [answer EXCEPT ![hand] = "resolved"]
  /\ WorkerGoto("enqueue")
  /\ UNCHANGED <<cancellationVars, awaiterVars, body, jobs, stopVars, ready>>

(* resolve_fn() has returned or thrown, which took its time: its answer is *)
(* published unless the job has been completed since.                      *)
WorkerPublish ==
  /\ wpc = "resolve"
  /\ IF completed[hand]
       THEN WorkerGoto("wait") /\ UNCHANGED <<completed, answer>>
       ELSE /\ completed' = [completed EXCEPT ![hand] = TRUE]
            /\ answer' = [answer EXCEPT ![hand] = "resolved"]
            /\ WorkerGoto("enqueue")
  /\ UNCHANGED <<cancellationVars, awaiterVars, body, jobs, stopVars, ready>>

WorkerEnqueue ==
  /\ wpc = "enqueue"
  /\ EnqueueReady(hand)
  /\ WorkerGoto("wait")
  /\ UNCHANGED <<cancellationVars, awaiterVars, jobVars, jobs, stopVars>>

WorkerStep == WorkerTake \/ WorkerLook \/ WorkerPublish \/ WorkerEnqueue

-----------------------------------------------------------------------------
(* The loop resumes the next coroutine: await_resume() throws or takes the *)
(* result, and the operation is destroyed with its job completed.          *)
LoopResume ==
  /\ ready # <<>>
  /\ LET j == Head(ready) IN
       /\ got' = [got EXCEPT ![j] = answer[j]]
       /\ place' = [place EXCEPT ![j] = "resumed"]
  /\ ready' = Tail(ready)
  /\ UNCHANGED <<cancellationVars, thread, jobVars, workerVars, stopVars>>

(* Mutant of Destroy: the destructor leaves the job as it is.              *)
DestroyQuietly(j) ==
  /\ place[j] = "waiting" /\ thread[j] = "none" /\ ~completed[j]
  /\ place' = [place EXCEPT ![j] = "destroyed"]
  /\ UNCHANGED <<cancellationVars, thread, got, jobVars, workerVars, stopVars, ready>>

(* ~async_resolve_operation() of a coroutine that is destroyed while it    *)
(* waits.  Its owner must not do that once the job has been completed: the *)
(* handle is then on its way to the loop.                                  *)
Destroy(j) ==
  /\ place[j] = "waiting" /\ thread[j] = "none" /\ ~completed[j]
  /\ place' = [place EXCEPT ![j] = "destroyed"]
  /\ completed' = [completed EXCEPT ![j] = TRUE]
  /\ answer' = [answer EXCEPT ![j] = "cancelled"]
  /\ UNCHANGED <<cancellationVars, thread, got, body, workerVars, stopVars, ready>>

-----------------------------------------------------------------------------
(* ~blocking_resolver(), at the end of the program: nobody is inside       *)
(* submit(), but requests may wait.                                        *)
Stop ==
  /\ spc = "idle" /\ \A j \in Jobs : thread[j] = "none"
  /\ stopping' = TRUE
  /\ spc' = "notify"
  /\ UNCHANGED <<cancellationVars, awaiterVars, jobVars, workerVars, ready>>

StopStep ==
  /\ \/ /\ spc = "notify" /\ spc' = "join"
        /\ wpc' = IF wpc = "asleep" THEN "wait" ELSE wpc
     \/ /\ spc = "join" /\ wpc = "exited"
        /\ spc' = "done" /\ UNCHANGED wpc
  /\ UNCHANGED <<cancellationVars, awaiterVars, jobVars, jobs, hand, stopping, ready>>

-----------------------------------------------------------------------------
(* The other users of the token, and the cancellers.                       *)
OtherOwnerStep(r) == r \in Callbacks \ Jobs /\ OwnerStep(r) /\ UNCHANGED resolverVars

OtherOwner(r) ==
  /\ r \in Callbacks \ Jobs
  /\ Register(r) \/ Deregister(r)
  /\ UNCHANGED resolverVars

CancellerStep(k) ==
  /\ \/ SwapCallbacks(k) \/ InvokeNext(k)
     \/ CallbackReturns(k) /\ (Head(moved[k]) \in Jobs => body[Head(moved[k])] = "return")
  /\ UNCHANGED resolverVars

Next ==
  \/ \E j \in Jobs : Resolve(j) \/ AwaiterStep(j) \/ CallbackBody(j) \/ Destroy(j)
  \/ WorkerStep \/ SpuriousWakeup \/ LoopResume \/ Stop \/ StopStep
  \/ \E r \in Callbacks : OtherOwner(r) \/ OtherOwnerStep(r)
  \/ \E k \in Cancellers : (RequestCancellation(k) /\ UNCHANGED resolverVars) \/ CancellerStep(k)

Spec == Init /\ [][Next]_vars

(* Threads inside a function of the library go on, callbacks return,       *)
(* getaddrinfo() returns and the loop resumes who is ready.  Nobody has to *)
(* resolve, register, cancel, destroy or stop.                             *)
FairSpec ==
  /\ Spec
  /\ \A j \in Jobs : WF_vars(AwaiterStep(j)) /\ WF_vars(CallbackBody(j))
  /\ WF_vars(WorkerStep) /\ WF_vars(LoopResume) /\ WF_vars(StopStep)
  /\ \A r \in Callbacks : WF_vars(OtherOwnerStep(r))
  /\ \A k \in Cancellers : WF_vars(CancellerStep(k))

-----------------------------------------------------------------------------
TypeOK ==
  /\ place \in [Jobs -> {"idle", "waiting", "resumed", "destroyed"}]
  /\ thread \in [Jobs -> {"none", "register", "submit", "notify"}]
  /\ \A j \in Jobs : thread[j] = "register" => j \in Callbacks
  /\ got \in [Jobs -> Answers \cup {"none"}]
  /\ completed \in [Jobs -> BOOLEAN]
  /\ answer \in [Jobs -> Answers \cup {"none"}]
  /\ body \in [Jobs -> {"claim", "enqueue", "return"}]
  /\ jobs \in Seq(Jobs) /\ ready \in Seq(Jobs)
  /\ wpc \in {"wait", "asleep", "look", "resolve", "enqueue", "exited"}
  /\ hand \in IF wpc \in {"look", "resolve", "enqueue"} THEN Jobs ELSE {NoJob}
  /\ stopping \in BOOLEAN /\ spc \in {"idle", "notify", "join", "done"}

(* Worker and cancellation never both queue a coroutine, and nobody queues *)
(* one that has been destroyed or has gone on.                             *)
ResumeOnlyWaiting ==
  /\ IsInjective(ready)
  /\ \A j \in ToSet(ready) : place[j] = "waiting" /\ completed[j]

(* A waiting coroutine is queued, in the hands of whoever claimed its job, *)
(* or its job is not complete and on its way to the worker, also while the *)
(* resolver is being destroyed.                                            *)
Reachable(j) ==
  \/ j \in ToSet(ready)
  \/ completed[j] /\ ((wpc = "enqueue" /\ hand = j) \/ (body[j] = "enqueue" /\ Calling(j)))
  \/ ~completed[j] /\ ( \/ thread[j] \in {"register", "submit"}
                        \/ j \in ToSet(jobs)
                        \/ wpc \in {"look", "resolve"} /\ hand = j )

NobodyForgotten == \A j \in Jobs : place[j] = "waiting" => Reachable(j)

(* The worker sleeps on a queued job or a stop only if a notification is   *)
(* on its way.                                                             *)
WorkerSleepIsJustified ==
  wpc = "asleep" /\ (jobs # <<>> \/ stopping) =>
    spc = "notify" \/ \E j \in Jobs : thread[j] = "notify"

(* Somebody may still complete request j.                                  *)
Started(j) ==
  \/ thread[j] # "none" \/ j \in ToSet(jobs) \/ hand = j
  \/ j \in Callbacks /\ rpc[j] # "idle"

(* Whoever has set completed, and only that one, queues the coroutine,     *)
(* which waits for it.                                                     *)
OneClaim ==
  /\ \A j \in Jobs :
       /\ place[j] = "idle" => ~completed[j]
       /\ Started(j) => place[j] = "waiting" \/ completed[j]
       /\ body[j] # "claim" => j \in Callbacks
       /\ body[j] = "enqueue" =>
            /\ Calling(j) /\ completed[j] /\ place[j] = "waiting"
            /\ j \notin ToSet(ready) /\ ~(wpc = "enqueue" /\ hand = j)
  /\ wpc = "enqueue" => completed[hand] /\ place[hand] = "waiting" /\ hand \notin ToSet(ready)

(* A completed request has an answer; one that is not going to be resumed  *)
(* apart, it is operation_cancelled only if its token was cancelled.       *)
AnswerIsTrue ==
  \A j \in Jobs :
    /\ completed[j] => answer[j] # "none"
    /\ answer[j] = "cancelled" => place[j] = "destroyed" \/ (j \in Callbacks /\ cancelled)

(* What holds of requests, worker and loop in every state; inductive with  *)
(* CancellationInvariant.                                                  *)
ResolverInvariant ==
  /\ TypeOK
  /\ ResumeOnlyWaiting
  /\ NobodyForgotten
  /\ WorkerSleepIsJustified
  /\ OneClaim
  /\ AnswerIsTrue

(* The first of worker, cancellation and destructor to complete a job      *)
(* decides; its answer never changes, the caller gets that answer, and     *)
(* operation_cancelled only if the token was cancelled.                    *)
FirstAnswerStands ==
  [][\A j \in Jobs :
       /\ completed[j] => completed'[j] /\ answer'[j] = answer[j]
       /\ got'[j] # got[j] =>
            IF got'[j] = "cancelled" THEN cancelled /\ j \in Callbacks
                                     ELSE got'[j] = answer[j] /\ answer[j] # "none"]_vars

(* Every request ends, also one whose job is still queued when the         *)
(* resolver is destroyed, and ~blocking_resolver() returns.                *)
RequestsEnd ==
  /\ \A j \in Jobs : place[j] = "waiting" ~> place[j] # "waiting"
  /\ spc = "notify" ~> spc = "done"

(* Another user's callback still registered when cancellation is requested *)
(* does run, unless its owner withdraws it in time.                        *)
CancelledCallbackRuns ==
  \A r \in Callbacks \ Jobs :
    rpc[r] = "registered" /\ cancelled ~> runs[r] = 1 \/ rpc[r] = "withdrawn"
=============================================================================
