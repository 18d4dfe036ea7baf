----------------------------- MODULE Combinators -----------------------------
(***************************************************************************)
(* sync_wait(when_any(...)) and sync_wait(when_all(...)), with or without  *)
(* a cancellation_source: a thread blocks until the parent has ended,      *)
(* while other threads set the gates of the children.                      *)
(***************************************************************************)
EXTENDS WhenAny, WhenAll

VARIABLE combinator  \* which of the two the parent calls

vars == <<eventVars, sharedVars, anyVars, count, combinator>>

Init ==
  /\ combinator \in {"any", "all"}
  /\ SharedInit /\ AnyInit /\ AllInit

AnyStep(c) ==
  /\ combinator = "any"
  /\ IF c = Parent THEN AnyParentStep ELSE AnyChildStep(c)
  /\ UNCHANGED <<count, combinator>>

AllStep(c) ==
  /\ combinator = "all"
  /\ IF c = Parent THEN AllParentStep ELSE AllChildStep(c)
  /\ UNCHANGED <<anyVars, combinator>>

ParentEnds(c) == c = Parent /\ SyncSet /\ UNCHANGED <<anyVars, count, combinator>>

CoroStep(c) == AnyStep(c) \/ AllStep(c) \/ ParentEnds(c)

ThreadStep(t) == Wake(t) /\ UNCHANGED <<anyVars, count, combinator>>
MainStep      == SyncStep /\ UNCHANGED <<anyVars, count, combinator>>
Environment   ==
  /\ SpuriousWakeup \/ \E t \in Threads : SetGate(t)
  /\ UNCHANGED <<anyVars, count, combinator>>

Next ==
  \/ \E c \in Coros : CoroStep(c)
  \/ \E t \in Threads : ThreadStep(t)
  \/ MainStep \/ Environment

Spec == Init /\ [][Next]_vars

(* Coroutines that are not suspended, threads inside set() and the thread  *)
(* in sync_wait() go on.  Nobody has to set a gate.                        *)
FairSpec ==
  /\ Spec
  /\ \A c \in Coros : WF_vars(CoroStep(c))
  /\ \A t \in Threads : WF_vars(ThreadStep(t))
  /\ WF_vars(MainStep)

-----------------------------------------------------------------------------
Points == AwaitPoints \cup
  {"unspawned", "spawn", "register", "claim", "publish", "notify", "waking", "cancel",
   "cancelling", "failed", "arrive", "latched", "leaving", "final", "done"}

TypeOK ==
  /\ state \in [Events -> [set : BOOLEAN, waiters : Seq(Coros)]]
  /\ point \in [Coros -> Points]
  /\ seen \in [Coros -> [set : BOOLEAN, waiters : Seq(Coros)]]
  /\ waking \in [Callers -> Seq(Coros)]
  /\ callee \in [Callers -> Coros \cup {None}]
  /\ hasSource \in BOOLEAN /\ cancelled \in BOOLEAN /\ onToken \in Seq(Coros)
  /\ outcome \in [Children -> Kinds \cup {None}]
  /\ taken \in [by : Children \cup {None}, kind : Kinds \cup {None}]
  /\ isSet \in BOOLEAN /\ main \in {"start", "wait", "asleep", "returned"}
  /\ completed \in BOOLEAN
  /\ result \in [by : Children, kind : Kinds] \cup {NoResult}
  /\ count \in 0..(Len(Tasks) + 1)
  /\ combinator \in {"any", "all"}

(* The lists a suspended coroutine may be in: those of the events, of the  *)
(* set() and request_cancellation() calls under way, and of the token.     *)
Lists    == ({"event"} \X Events) \cup ({"caller"} \X Callers) \cup {<<"token", Token>>}
Listed(l) == CASE l[1] = "event"  -> state[l[2]].waiters
               [] l[1] = "caller" -> waking[l[2]]
               [] l[1] = "token"  -> onToken

(* A coroutine is in the hands of exactly one list while it is suspended,  *)
(* and of none while it runs: it is neither forgotten nor resumed twice    *)
(* (manual_reset_event::set).                                              *)
SuspendedIffListedOnce ==
  /\ \A l \in Lists : IsInjective(Listed(l))
  /\ \A l, m \in Lists : l # m => ToSet(Listed(l)) \cap ToSet(Listed(m)) = {}
  /\ {c \in Coros : point[c] = "suspended"} = UNION {ToSet(Listed(l)) : l \in Lists}

(* Nobody waits in the list of an event that is set, or for a token that   *)
(* is cancelled: no other set() would look at the list.                    *)
NobodyWaitsOnSetEvent ==
  /\ \A e \in Events : state[e].set => state[e].waiters = <<>>
  /\ cancelled => onToken = <<>>

(* sync_wait() does not return before the parent has its result, and the   *)
(* thread does not touch the event after that: it is on its own stack.     *)
ReturnsWithResult == main = "returned" => point[Parent] = "done" /\ taken # NoResult

(* What holds of the waiters and the waiting thread in every state: a      *)
(* suspended coroutine is in one list, and not in that of an event that is *)
(* set, and sync_wait() returns with a result.                             *)
WaitersInvariant ==
  /\ TypeOK
  /\ SuspendedIffListedOnce
  /\ NobodyWaitsOnSetEvent
  /\ ReturnsWithResult

(* when_any: the first result, and only that, reaches the parent.          *)
AnyResult == combinator = "any" => ParentTakesResult

(* when_all: the parent goes on exactly when all have ended, and throws if *)
(* and only if one failed; it throws operation_cancelled only if another   *)
(* child failed by itself and cancelled the source.                        *)
AllJoined ==
  combinator = "all" =>
    /\ LatchCounts /\ ParentAfterChildren
    /\ point[Parent] \in {"final", "done"} =>
         /\ taken.kind = "value" <=> \A c \in Children : outcome[c] = "value"
         /\ taken.kind = "cancelled" =>
              hasSource /\ \E c \in Children : outcome[c] = "exception"

(* The combinator has its result: one for when_any, all for when_all.      *)
Decided ==
  IF combinator = "any" THEN result # NoResult
                        ELSE \A c \in Children : outcome[c] # None

(* Once it has, sync_wait() returns.                                       *)
SyncWaitReturns == Decided ~> main = "returned"

(* set() and request_cancellation() resume everybody who waited, however   *)
(* the resumed ones go on.                                                 *)
Released(c) == IF Gate[c] = Token THEN cancelled ELSE state[Gate[c]].set

SetReleasesAll ==
  \A c \in Children : (point[c] = "suspended" /\ Released(c)) ~> (point[c] = "done")
=============================================================================
