------------------------------- MODULE WhenAll -------------------------------
(***************************************************************************)
(* xcoro::when_all (when_all.hpp).  The latch starts at one more than the  *)
(* number of children; whoever takes it to zero, the last child or the     *)
(* parent itself in try_await(), lets the parent go on.  With a            *)
(* cancellation_source a child that fails cancels the others first.        *)
(***************************************************************************)
EXTENDS Combinator, FiniteSets

VARIABLE
  count  \* when_all_latch::count_

AllInit == count = Len(Tasks) + 1

-----------------------------------------------------------------------------
(* The parent has started every child and gives up its own count: it goes  *)
(* on if they have all ended, and suspends otherwise.                      *)
TryAwait ==
  /\ AllSpawned
  /\ count' = count - 1
  /\ IF count > 1 THEN Leave(Parent, "latched")
                  ELSE Goto(Parent, "resume") /\ UNCHANGED callee
  /\ UNCHANGED <<state, seen, waking, sharedVars>>

(* make_when_all_task_cancel_on_failure(): the handler of a failed child.  *)
FailedChild(c) ==
  /\ c \in Children /\ point[c] = "failed"
  /\ Goto(c, "cancelling")
  /\ IF hasSource THEN RequestCancellation(c) ELSE UNCHANGED <<cancelled, waking, onToken>>
  /\ UNCHANGED <<state, seen, callee, hasSource, outcome, taken, isSet, main, count>>

CompleteTask(c) ==
  /\ \/ Complete(c, "failed") /\ outcome'[c] # "value"
     \/ Complete(c, "arrive") /\ outcome'[c] = "value"
  /\ UNCHANGED count

CancelOthers(c) ==
  /\ c \in Children /\ point[c] = "cancelling"
  /\ \/ Wake(c)
     \/ SetReturns(c) /\ Goto(c, "arrive") /\ UNCHANGED <<state, seen, waking, callee, sharedVars>>
  /\ UNCHANGED count

(* Mutant of Arrive: a child that fails is not counted.                    *)
ArriveIfSuccessful(c) ==
  /\ count' = IF outcome[c] = "value" THEN count - 1 ELSE count
  /\ IF count = 1
       THEN /\ point' = [point EXCEPT ![c] = "leaving", ![Parent] = "resume"]
            /\ callee' = [callee EXCEPT ![c] = Parent]
       ELSE Leave(c, "done")

(* Mutant of Arrive: the parent is resumed by the one before the last.     *)
ArriveEarly(c) ==
  /\ count' = count - 1
  /\ IF count = 2 /\ point[Parent] = "latched"
       THEN /\ point' = [point EXCEPT ![c] = "leaving", ![Parent] = "resume"]
            /\ callee' = [callee EXCEPT ![c] = Parent]
       ELSE Leave(c, "done")

(* notify_awaitable_completed(): the last one resumes the parent, inline.  *)
Arrive(c) ==
  /\ count' = count - 1
  /\ IF count = 1
       THEN /\ point' = [point EXCEPT ![c] = "leaving", ![Parent] = "resume"]
            /\ callee' = [callee EXCEPT ![c] = Parent]
       ELSE Leave(c, "done")

FinalSuspend(c) ==
  /\ c \in Children
  /\ \/ /\ point[c] = "arrive"
        /\ Arrive(c)
     \/ /\ point[c] = "leaving" /\ callee[c] = None
        /\ Leave(c, "done")
        /\ UNCHANGED count
  /\ UNCHANGED <<state, seen, waking, sharedVars>>

(* Children that failed, by their position.                                *)
Failures == {i \in DOMAIN Tasks : outcome[Tasks[i]] # "value"}

(* throw_if_any_exception() and collect_results(): the exception of the    *)
(* first argument that failed, whichever failed first in time.             *)
FirstFailure ==
  IF Failures = {} THEN [by |-> None, kind |-> "value"]
  ELSE LET i == CHOOSE i \in Failures : \A j \in Failures : i <= j
       IN  [by |-> Tasks[i], kind |-> outcome[Tasks[i]]]

TakeAll ==
  /\ point[Parent] = "resume"
  /\ taken' = FirstFailure
  /\ Goto(Parent, "final")
  /\ UNCHANGED <<state, seen, waking, callee, hasSource, cancelled, onToken, outcome,
                 isSet, main, count>>

AllChildStep(c) ==
  \/ AwaitGate(c) /\ UNCHANGED count
  \/ CompleteTask(c) \/ FailedChild(c) \/ CancelOthers(c) \/ FinalSuspend(c)

AllParentStep ==
  \/ (\E c \in Children : Spawn(c)) /\ UNCHANGED count
  \/ TryAwait \/ TakeAll

-----------------------------------------------------------------------------
(* Counted in the latch: the children that have not ended, and the parent  *)
(* until it has started them.                                              *)
NotArrived == {c \in Children : point[c] \notin {"leaving", "done"}}

LatchCounts ==
  count = Cardinality(NotArrived) + (IF point[Parent] \in {"unspawned", "spawn"} THEN 1 ELSE 0)

(* The parent of a when_all goes on only after every child has ended, and  *)
(* while it is suspended there is one that has not: so somebody takes the  *)
(* latch to zero, and nobody does so twice (when_all_latch).               *)
ParentAfterChildren ==
  /\ point[Parent] = "latched" => NotArrived # {}
  /\ point[Parent] \in {"resume", "final", "done"} => NotArrived = {}
=============================================================================
