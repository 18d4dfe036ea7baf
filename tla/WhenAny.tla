------------------------------- MODULE WhenAny -------------------------------
(***************************************************************************)
(* xcoro::when_any (when_any.hpp), over tuples and ranges.  Each child is  *)
(* wrapped in a detached coroutine; the first to finish claims the         *)
(* completion_state, publishes into it and sets the notify event that the  *)
(* parent waits for.  The parent then cancels the source, if there is one. *)
(***************************************************************************)
EXTENDS Combinator

CONSTANT Throwing  \* children whose result may throw while it is moved

VARIABLES
  completed,  \* completion_state::completed_
  result      \* completion_state::result_ and exception_: whose, and which

anyVars == <<completed, result>>

AnyInit == completed = FALSE /\ result = NoResult

-----------------------------------------------------------------------------
(* A child, from the end of its co_await on.                               *)
CompleteChild(c) == Complete(c, "claim") /\ UNCHANGED anyVars

(* Mutant of TryClaimFirst: the exchange does not compare.                 *)
ClaimAnyway(c) ==
  /\ completed' = TRUE
  /\ Goto(c, "publish")
  /\ UNCHANGED callee

TryClaimFirst(c) ==
  /\ completed' = TRUE
  /\ IF completed THEN Leave(c, "done") ELSE Goto(c, "publish") /\ UNCHANGED callee

Claim(c) ==
  /\ c \in Children /\ point[c] = "claim"
  /\ TryClaimFirst(c)
  /\ UNCHANGED <<state, seen, waking, sharedVars, result>>

(* emplace() of the result, or the assignment of the exception.  A move    *)
(* that throws leaves the claim taken and ends in try_publish_exception(). *)
Publish(c) ==
  \/ /\ result' = [by |-> c, kind |-> outcome[c]]
     /\ Goto(c, "notify")
     /\ UNCHANGED outcome
  \/ /\ c \in Throwing /\ outcome[c] = "value"
     /\ outcome' = [outcome EXCEPT ![c] = "exception"]
     /\ Goto(c, "claim")
     /\ UNCHANGED result

PublishStep(c) ==
  /\ c \in Children /\ point[c] = "publish"
  /\ Publish(c)
  /\ UNCHANGED <<state, seen, waking, callee, hasSource, cancelled, onToken, taken,
                 isSet, main, completed>>

SetNotify(c) ==
  /\ c \in Children /\ point[c] = "notify"
  /\ Goto(c, "waking")
  /\ SetEvent(c, Notify)
  /\ UNCHANGED <<sharedVars, anyVars>>

(* The winner's set(), and after it the end of the detached coroutine.     *)
WakeParent(c) ==
  /\ c \in Children /\ point[c] = "waking"
  /\ \/ Wake(c)
     \/ SetReturns(c) /\ Leave(c, "done") /\ UNCHANGED <<state, seen, waking, sharedVars>>
  /\ UNCHANGED anyVars

-----------------------------------------------------------------------------
CoAwaitNotify ==
  /\ AllSpawned
  /\ Goto(Parent, "ready")
  /\ UNCHANGED <<state, seen, waking, callee, sharedVars, anyVars>>

AwaitNotify == AwaiterStep(Parent, Notify) /\ UNCHANGED <<sharedVars, anyVars>>

(* Rethrow the exception or take the result; with a source, cancel it.     *)
TakeResult ==
  /\ point[Parent] = "resume"
  /\ taken' = result
  /\ Goto(Parent, IF hasSource THEN "cancel" ELSE "final")
  /\ UNCHANGED <<state, seen, waking, callee, hasSource, cancelled, onToken, outcome,
                 isSet, main, anyVars>>

CancelLosers ==
  /\ point[Parent] = "cancel"
  /\ Goto(Parent, "cancelling")
  /\ RequestCancellation(Parent)
  /\ UNCHANGED <<state, seen, callee, hasSource, outcome, taken, isSet, main, anyVars>>

LosersCancelled ==
  /\ point[Parent] = "cancelling"
  /\ \/ Wake(Parent)
     \/ SetReturns(Parent) /\ Goto(Parent, "final")
        /\ UNCHANGED <<state, seen, waking, callee, sharedVars>>
  /\ UNCHANGED anyVars

AnyChildStep(c) ==
  \/ AwaitGate(c) /\ UNCHANGED anyVars
  \/ CompleteChild(c) \/ Claim(c) \/ PublishStep(c) \/ SetNotify(c) \/ WakeParent(c)

AnyParentStep ==
  \/ (\E c \in Children : Spawn(c)) /\ UNCHANGED anyVars
  \/ CoAwaitNotify \/ AwaitNotify \/ TakeResult \/ CancelLosers \/ LosersCancelled

-----------------------------------------------------------------------------
(* The parent of a when_any goes on only when the winner's result or       *)
(* exception is there, what it takes stays the result, and a child that    *)
(* fails because this when_any has cancelled the source is never it.       *)
ParentTakesResult ==
  /\ point[Parent] \in {"resume", "cancel", "cancelling", "final", "done"} => result # NoResult
  /\ point[Parent] \in {"cancel", "cancelling", "final", "done"} => taken = result
  /\ result.kind # "cancelled"
=============================================================================
