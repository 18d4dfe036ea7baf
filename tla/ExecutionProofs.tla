---------------------------- MODULE ExecutionProofs ----------------------------
(***************************************************************************)
(* Proofs about the two parts of the library that run coroutines for       *)
(* others, for any number of coroutines and threads: the combinators       *)
(* (when_any, when_all, their events and sync_wait), and after them the    *)
(* thread pool.  The two share no variable and no name.                    *)
(***************************************************************************)
EXTENDS Combinators, ThreadPool, DataLemmas

(* The points of a child and of the parent in each of the two combinators. *)
Before     == {"unspawned", "ready", "load", "push", "register", "suspended", "resume"}
AnyChild   == Before \cup {"claim", "publish", "notify", "waking", "done"}
AnyParent  == {"unspawned", "spawn", "ready", "load", "push", "suspended", "resume",
               "cancel", "cancelling", "final", "done"}
AllChild   == Before \cup {"failed", "cancelling", "arrive", "leaving", "done"}
AllParent  == {"unspawned", "spawn", "latched", "resume", "final", "done"}
(* The parent's points once it has read the result of the race.            *)
AfterTaken == {"cancel", "cancelling", "final", "done"}

(* A child and the parent are where the chosen combinator may have them.   *)
PointsInv ==
  /\ combinator = "any" => /\ point[Parent] \in AnyParent
                           /\ \A c \in Children : point[c] \in AnyChild
  /\ combinator = "all" => /\ point[Parent] \in AllParent
                           /\ \A c \in Children : point[c] \in AllChild

(* Only a coroutine inside set() or request_cancellation(), or a thread    *)
(* inside set(), has a list of coroutines to resume.                       *)
WakingInv ==
  \A c \in Coros : waking[c] # <<>> => point[c] \in {"waking", "cancelling"}

(* A child has an outcome from the end of its wait on, never changes it    *)
(* but for a throwing move, and is cancelled only if the token is.         *)
OutcomeInv ==
  \A c \in Children :
    /\ outcome[c] = None <=> point[c] \in Before
    /\ outcome[c] = "cancelled" => cancelled
    /\ point[c] = "failed" => outcome[c] # "value"

(* Who cancels, and after what.                                            *)
CancelledInv ==
  /\ point[Parent] = "cancel" => hasSource
  /\ cancelled => hasSource
  /\ cancelled /\ combinator = "any" => result # NoResult
  /\ cancelled /\ combinator = "all" => \E c \in Children : outcome[c] = "exception"

(* The thread in sync_wait() and the parent it has started.                *)
SyncInv ==
  /\ main = "start" => point[Parent] = "unspawned"
  /\ main = "returned" => isSet
  /\ isSet => point[Parent] = "done"
  /\ point[Parent] \in AfterTaken => taken # NoResult

(* when_any's parent waits for the notify event and for nothing else, and  *)
(* is resumed after it was set.                                            *)
NotifyInv ==
  combinator = "any" =>
    /\ \A e \in Events \ {Notify} : Parent \notin ToSet(state[e].waiters)
    /\ Parent \notin ToSet(onToken)
    /\ \A x \in Callers : Parent \in ToSet(waking[x]) => state[Notify].set
    /\ seen[Parent].set => state[Notify].set
    /\ point[Parent] \in {"resume"} \cup AfterTaken => state[Notify].set

(* One child claims, publishes and sets the event, in this order.          *)
ClaimInv ==
  combinator = "any" =>
    /\ result # NoResult => completed
    /\ state[Notify].set => result # NoResult
    /\ \A c \in Children : point[c] \in {"publish", "notify", "waking"} => completed
    /\ \A c \in Children : point[c] = "publish" => result = NoResult
    /\ \A c \in Children : point[c] = "notify" => result # NoResult
    /\ \A c, d \in Children : point[c] = "publish" /\ point[d] = "publish" => c = d
    /\ result.kind # "cancelled"
    /\ point[Parent] \in AfterTaken => taken = result

(* The inductive invariant.                                                *)
CombinatorInductive ==
  /\ TypeOK
  /\ PointsInv
  /\ WakingInv
  /\ SuspendedIffListedOnce
  /\ NobodyWaitsOnSetEvent
  /\ OutcomeInv
  /\ CancelledInv
  /\ SyncInv
  /\ NotifyInv
  /\ ClaimInv
  /\ AllJoined

-----------------------------------------------------------------------------
(* One more or one less of a finite set of children, workers or threads.   *)
LEMMA CountOne ==
  ASSUME NEW A, IsFiniteSet(A), NEW x
  PROVE  /\ Cardinality(A) \in Nat
         /\ IsFiniteSet(A \cup {x}) /\ IsFiniteSet(A \ {x})
         /\ x \notin A => Cardinality(A \cup {x}) = Cardinality(A) + 1
         /\ x \in A => Cardinality(A) = Cardinality(A \ {x}) + 1
<1>1. Cardinality(A) \in Nat /\ IsFiniteSet(A \cup {x}) /\ IsFiniteSet(A \ {x})
  BY FS_CardinalityType, FS_AddElement, FS_RemoveElement
<1>2. x \notin A => Cardinality(A \cup {x}) = Cardinality(A) + 1
  BY FS_AddElement
<1>3. x \in A => Cardinality(A \ {x}) = Cardinality(A) - 1
  BY FS_RemoveElement
<1> QED BY <1>1, <1>2, <1>3

-----------------------------------------------------------------------------
(* What the assumptions say of the names of coroutines and lists.          *)
LEMMA NamesDiffer ==
  /\ Children \subseteq Coros /\ Parent \in Coros /\ Parent \notin Children
  /\ \A c \in Coros : c = Parent \/ c \in Children
  /\ Coros \subseteq Callers /\ Threads \subseteq Callers
  /\ Main \in Threads /\ \A t \in Threads : t \notin Coros
  /\ Notify \in Events /\ Token \notin Events
  /\ \A c \in Children : Gate[c] # Token => Gate[c] \in Events \ {Notify}
  /\ None \notin Coros /\ None \notin Kinds /\ None \notin Children
  /\ None # "value" /\ None # "exception" /\ None # "cancelled"
  BY CombinatorAssumption DEF Callers, Kinds

(* The coroutines that are suspended in a list.                            *)
Suspended == {c \in Coros : point[c] = "suspended"}

(* The lists by name.                                                      *)
LEMMA ListNames ==
  /\ \A e \in Events : <<"event", e>> \in Lists
       /\ Listed(<<"event", e>>) = state[e].waiters
       /\ Listed(<<"event", e>>)' = state'[e].waiters
  /\ \A x \in Callers : <<"caller", x>> \in Lists
       /\ Listed(<<"caller", x>>) = waking[x]
       /\ Listed(<<"caller", x>>)' = waking'[x]
  /\ <<"token", Token>> \in Lists
  /\ Listed(<<"token", Token>>) = onToken /\ Listed(<<"token", Token>>)' = onToken'
  /\ \A l \in Lists : \/ \E e \in Events : l = <<"event", e>>
                      \/ \E x \in Callers : l = <<"caller", x>>
                      \/ l = <<"token", Token>>
  /\ \A e \in Events, x \in Callers :
       /\ <<"event", e>> # <<"caller", x>>
       /\ <<"token", Token>> # <<"caller", x>>
       /\ <<"event", e>> # <<"token", Token>>
<1>1. \A e \in Events : <<"event", e>> \in Lists
       /\ Listed(<<"event", e>>) = state[e].waiters
       /\ Listed(<<"event", e>>)' = state'[e].waiters
  BY DEF Lists, Listed
<1>2. \A x \in Callers : <<"caller", x>> \in Lists
       /\ Listed(<<"caller", x>>) = waking[x]
       /\ Listed(<<"caller", x>>)' = waking'[x]
  BY DEF Lists, Listed
<1>3. /\ <<"token", Token>> \in Lists
      /\ Listed(<<"token", Token>>) = onToken /\ Listed(<<"token", Token>>)' = onToken'
  BY DEF Lists, Listed
<1>4. \A l \in Lists : \/ \E e \in Events : l = <<"event", e>>
                       \/ \E x \in Callers : l = <<"caller", x>>
                       \/ l = <<"token", Token>>
  BY DEF Lists
<1>5. \A e \in Events, x \in Callers :
       /\ <<"event", e>> # <<"caller", x>>
       /\ <<"token", Token>> # <<"caller", x>>
       /\ <<"event", e>> # <<"token", Token>>
  OBVIOUS
<1> QED BY <1>1, <1>2, <1>3, <1>4, <1>5

(* A coroutine is suspended exactly if it is in some list, and then in one *)
(* only.                                                                   *)
LEMMA WhoIsListed ==
  ASSUME TypeOK, SuspendedIffListedOnce
  PROVE  /\ \A l \in Lists : ToSet(Listed(l)) \subseteq Suspended
         /\ \A c \in Suspended : \E l \in Lists : c \in ToSet(Listed(l))
         /\ \A e \in Events : \A c \in ToSet(state[e].waiters) : point[c] = "suspended"
         /\ \A x \in Callers : \A c \in ToSet(waking[x]) : point[c] = "suspended"
         /\ \A c \in ToSet(onToken) : point[c] = "suspended"
<1>1. \A l \in Lists : ToSet(Listed(l)) \subseteq Suspended
  BY DEF SuspendedIffListedOnce, Suspended
<1>2. \A c \in Suspended : \E l \in Lists : c \in ToSet(Listed(l))
  BY DEF SuspendedIffListedOnce, Suspended
<1> QED BY <1>1, <1>2, ListNames DEF Suspended

(* The four ways a step may touch the lists: not at all;                   *)
LEMMA ListsStay ==
  ASSUME SuspendedIffListedOnce, Suspended' = Suspended,
         \A l \in Lists : Listed(l)' = Listed(l)
  PROVE  SuspendedIffListedOnce'
  BY DEF SuspendedIffListedOnce, Suspended

(* a coroutine suspends and enters one list;                               *)
LEMMA ListGrows ==
  ASSUME SuspendedIffListedOnce, NEW l \in Lists, NEW c \in Coros, c \notin Suspended,
         Suspended' = Suspended \cup {c},
         IsInjective(Listed(l)'), ToSet(Listed(l)') = ToSet(Listed(l)) \cup {c},
         \A m \in Lists \ {l} : Listed(m)' = Listed(m)
  PROVE  SuspendedIffListedOnce'
<1>1. \A m \in Lists : /\ IsInjective(Listed(m)')
                       /\ c \notin ToSet(Listed(m))
                       /\ ToSet(Listed(m)') = IF m = l THEN ToSet(Listed(m)) \cup {c}
                                                       ELSE ToSet(Listed(m))
  BY DEF SuspendedIffListedOnce, Suspended
<1>2. \A m, n \in Lists : m # n => ToSet(Listed(m)') \cap ToSet(Listed(n)') = {}
  BY <1>1 DEF SuspendedIffListedOnce
<1>3. \A d : d \in Suspended' <=> \E m \in Lists : d \in ToSet(Listed(m)')
  BY <1>1 DEF SuspendedIffListedOnce, Suspended
<1>4. Suspended' = UNION {ToSet(Listed(m)') : m \in Lists}
  BY <1>3
<1> QED BY <1>1, <1>2, <1>4 DEF SuspendedIffListedOnce, Suspended

(* one leaves its list and is resumed;                                     *)
LEMMA ListShrinks ==
  ASSUME SuspendedIffListedOnce, NEW l \in Lists, NEW c, Suspended' = Suspended \ {c},
         IsInjective(Listed(l)'), ToSet(Listed(l)) = ToSet(Listed(l)') \cup {c},
         c \notin ToSet(Listed(l)'),
         \A m \in Lists \ {l} : Listed(m)' = Listed(m)
  PROVE  SuspendedIffListedOnce'
<1>1. \A m \in Lists : /\ IsInjective(Listed(m)')
                       /\ ToSet(Listed(m)') = ToSet(Listed(m)) \ {c}
  BY DEF SuspendedIffListedOnce, Suspended
<1>2. \A m, n \in Lists : m # n => ToSet(Listed(m)') \cap ToSet(Listed(n)') = {}
  BY <1>1 DEF SuspendedIffListedOnce
<1>3. \A d : d \in Suspended' <=> \E m \in Lists : d \in ToSet(Listed(m)')
  BY <1>1 DEF SuspendedIffListedOnce, Suspended
<1>4. Suspended' = UNION {ToSet(Listed(m)') : m \in Lists}
  BY <1>3
<1> QED BY <1>1, <1>2, <1>4 DEF SuspendedIffListedOnce, Suspended

(* or a whole list is taken by a caller who has none.                      *)
LEMMA ListMoves ==
  ASSUME SuspendedIffListedOnce, NEW l \in Lists, NEW k \in Lists, k # l,
         Suspended' = Suspended, Listed(k) = <<>>,
         Listed(k)' = Listed(l), Listed(l)' = <<>>,
         \A m \in Lists \ {k, l} : Listed(m)' = Listed(m)
  PROVE  SuspendedIffListedOnce'
<1>1. \A m \in Lists :
        /\ IsInjective(Listed(m)')
        /\ ToSet(Listed(m)') = IF m = k THEN ToSet(Listed(l))
                               ELSE IF m = l THEN {} ELSE ToSet(Listed(m))
        /\ ToSet(Listed(k)) = {}
  BY ToSetEmpty DEF SuspendedIffListedOnce, IsInjective
<1>2. \A m, n \in Lists : m # n => ToSet(Listed(m)') \cap ToSet(Listed(n)') = {}
  BY <1>1 DEF SuspendedIffListedOnce
<1>3. \A d : d \in Suspended' <=> \E m \in Lists : d \in ToSet(Listed(m)')
  <2>1. \A d : d \in Suspended <=> \E m \in Lists : d \in ToSet(Listed(m))
    BY DEF SuspendedIffListedOnce, Suspended
  <2> QED BY <1>1, <2>1
<1>4. Suspended' = UNION {ToSet(Listed(m)') : m \in Lists}
  BY <1>3
<1> QED BY <1>1, <1>2, <1>4 DEF SuspendedIffListedOnce, Suspended

-----------------------------------------------------------------------------
(* The steps of the composition, sorted by what they do.  Both combinators *)
(* wait for events and for the token, wake the next of a list, start       *)
(* children, and are run by sync_wait();                                   *)
restVars == <<anyVars, count, combinator>>

(* a child or the parent waits for an event;                               *)
Awaits(c, e) ==
  /\ \/ c \in Children /\ e = Gate[c] /\ e # Notify
     \/ c = Parent /\ e = Notify /\ combinator = "any"
  /\ AwaiterStep(c, e)
  /\ UNCHANGED <<sharedVars, restVars>>

(* a child's wait for the cancellation;                                    *)
AwaitsToken(c) == (AwaitToken(c) \/ RegisterOnToken(c)) /\ UNCHANGED restVars

(* the next coroutine of a list is resumed;                                *)
Wakes(x) == Wake(x) /\ UNCHANGED restVars

(* a caller has resumed everybody it had to, and goes on;                  *)
Quits(c) ==
  /\ \/ /\ combinator = "any" /\ c \in Children /\ point[c] = "waking"
        /\ waking[c] = <<>> /\ Goto(c, "done")
     \/ /\ combinator = "any" /\ c = Parent /\ point[c] = "cancelling"
        /\ waking[c] = <<>> /\ Goto(c, "final")
     \/ /\ combinator = "all" /\ c \in Children /\ point[c] = "cancelling"
        /\ waking[c] = <<>> /\ Goto(c, "arrive")
     \/ /\ combinator = "all" /\ c \in Children /\ point[c] = "leaving"
        /\ Goto(c, "done")
  /\ UNCHANGED callee \/ Returned(c)
  /\ UNCHANGED <<state, seen, waking, sharedVars, restVars>>

(* a child is started, sync_wait() goes on, a gate is set;                 *)
Surroundings ==
  /\ \/ \E c \in Children : Spawn(c)
     \/ SyncStart \/ SyncWait \/ SpuriousWakeup \/ SyncSet
     \/ \E t \in Threads : SetGate(t)
  /\ UNCHANGED restVars

(* the steps of a when_any,                                                *)
AnyActs(c) ==
  /\ combinator = "any"
  /\ \/ c \in Children /\ (CompleteChild(c) \/ Claim(c) \/ PublishStep(c) \/ SetNotify(c))
     \/ c = Parent /\ (CoAwaitNotify \/ TakeResult \/ CancelLosers)
  /\ UNCHANGED <<count, combinator>>

(* of a when_all,                                                          *)
AllActs(c) ==
  /\ combinator = "all"
  /\ \/ /\ c \in Children
        /\ \/ CompleteTask(c) \/ FailedChild(c)
           \/ point[c] = "arrive" /\ FinalSuspend(c)
     \/ c = Parent /\ (TryAwait \/ TakeAll)
  /\ UNCHANGED <<anyVars, combinator>>

(* and there are no others.                                                *)
LEMMA StepKinds ==
  ASSUME Next
  PROVE  \/ \E c \in Coros, e \in Events : Awaits(c, e)
         \/ \E c \in Children : AwaitsToken(c)
         \/ \E x \in Callers : Wakes(x)
         \/ \E c \in Coros : Quits(c) \/ AnyActs(c) \/ AllActs(c)
         \/ Surroundings
<1> DEFINE Goal == \/ \E c \in Coros, e \in Events : Awaits(c, e)
                   \/ \E c \in Children : AwaitsToken(c)
                   \/ \E x \in Callers : Wakes(x)
                   \/ \E c \in Coros : Quits(c) \/ AnyActs(c) \/ AllActs(c)
                   \/ Surroundings
<1>1. ASSUME NEW c \in Children, AwaitGate(c), UNCHANGED restVars PROVE Goal
  <2>1. CASE Gate[c] # Token /\ AwaiterStep(c, Gate[c]) /\ UNCHANGED sharedVars
    <3>1. c \in Coros /\ Gate[c] \in Events /\ Gate[c] # Notify
      BY <2>1, NamesDiffer
    <3>2. Awaits(c, Gate[c])
      BY <1>1, <2>1, <3>1 DEF Awaits
    <3> QED BY <3>1, <3>2
  <2>2. CASE AwaitToken(c) \/ RegisterOnToken(c)
    BY <1>1, <2>2 DEF AwaitsToken
  <2> QED BY <1>1, <2>1, <2>2 DEF AwaitGate
<1>2. ASSUME NEW c \in Coros, AnyStep(c) PROVE Goal
  <2>1. CASE c = Parent
    <3>1. combinator = "any" /\ AnyParentStep /\ UNCHANGED <<count, combinator>>
      BY <1>2, <2>1 DEF AnyStep
    <3>2. CASE (\E d \in Children : Spawn(d)) /\ UNCHANGED anyVars
      BY <3>1, <3>2 DEF Surroundings, restVars
    <3>3. CASE CoAwaitNotify \/ TakeResult \/ CancelLosers
      BY <2>1, <3>1, <3>3 DEF AnyActs
    <3>4. CASE AwaitNotify
      <4>1. Awaits(Parent, Notify)
        BY <3>1, <3>4 DEF AwaitNotify, Awaits, restVars
      <4> QED BY <4>1, NamesDiffer
    <3>5. CASE LosersCancelled
      <4>1. Wakes(Parent) \/ Quits(Parent)
        BY <3>1, <3>5 DEF LosersCancelled, Wakes, Quits, restVars, SetReturns, Leave,
             sharedVars
      <4> QED BY <4>1, NamesDiffer
    <3> QED BY <3>1, <3>2, <3>3, <3>4, <3>5 DEF AnyParentStep
  <2>2. CASE c # Parent
    <3>1. combinator = "any" /\ AnyChildStep(c) /\ UNCHANGED <<count, combinator>>
      BY <1>2, <2>2 DEF AnyStep
    <3>2. c \in Children /\ c \in Callers
      BY <2>2, NamesDiffer
    <3>3. CASE AwaitGate(c) /\ UNCHANGED anyVars
      BY <1>1, <3>1, <3>2, <3>3 DEF restVars
    <3>4. CASE CompleteChild(c) \/ Claim(c) \/ PublishStep(c) \/ SetNotify(c)
      BY <3>1, <3>2, <3>4 DEF AnyActs
    <3>5. CASE WakeParent(c)
      <4>1. Wakes(c) \/ Quits(c)
        BY <3>1, <3>2, <3>5 DEF WakeParent, Wakes, Quits, restVars, SetReturns,
             Leave, sharedVars
      <4> QED BY <3>2, <4>1
    <3> QED BY <3>1, <3>3, <3>4, <3>5 DEF AnyChildStep
  <2> QED BY <2>1, <2>2
<1>3. ASSUME NEW c \in Coros, AllStep(c) PROVE Goal
  <2>1. CASE c = Parent
    <3>1. combinator = "all" /\ AllParentStep /\ UNCHANGED <<anyVars, combinator>>
      BY <1>3, <2>1 DEF AllStep
    <3>2. CASE (\E d \in Children : Spawn(d)) /\ UNCHANGED count
      BY <3>1, <3>2 DEF Surroundings, restVars
    <3>3. CASE TryAwait \/ TakeAll
      BY <2>1, <3>1, <3>3 DEF AllActs
    <3> QED BY <3>1, <3>2, <3>3 DEF AllParentStep
  <2>2. CASE c # Parent
    <3>1. combinator = "all" /\ AllChildStep(c) /\ UNCHANGED <<anyVars, combinator>>
      BY <1>3, <2>2 DEF AllStep
    <3>2. c \in Children /\ c \in Callers
      BY <2>2, NamesDiffer
    <3>3. CASE AwaitGate(c) /\ UNCHANGED count
      BY <1>1, <3>1, <3>2, <3>3 DEF restVars
    <3>4. CASE CompleteTask(c) \/ FailedChild(c)
      BY <3>1, <3>2, <3>4 DEF AllActs
    <3>5. CASE CancelOthers(c)
      <4>1. Wakes(c) \/ Quits(c)
        BY <3>1, <3>2, <3>5 DEF CancelOthers, Wakes, Quits, restVars, SetReturns, Leave,
             sharedVars
      <4> QED BY <3>2, <4>1
    <3>6. CASE FinalSuspend(c)
      <4>1. CASE point[c] = "arrive"
        BY <3>1, <3>2, <3>6, <4>1 DEF AllActs
      <4>2. CASE point[c] # "arrive"
        <5>1. Quits(c)
          BY <3>1, <3>2, <3>6, <4>2 DEF FinalSuspend, Quits, Leave, restVars, sharedVars
        <5> QED BY <5>1
      <4> QED BY <4>1, <4>2
    <3> QED BY <3>1, <3>3, <3>4, <3>5, <3>6 DEF AllChildStep
  <2> QED BY <2>1, <2>2
<1>4. ASSUME NEW c \in Coros, ParentEnds(c) PROVE Goal
  BY <1>4 DEF ParentEnds, Surroundings, restVars
<1>5. ASSUME NEW t \in Threads, ThreadStep(t) PROVE Goal
  <2>1. Wakes(t) /\ t \in Callers
    BY <1>5, NamesDiffer DEF ThreadStep, Wakes, restVars
  <2> QED BY <2>1
<1>6. ASSUME MainStep \/ Environment PROVE Goal
  BY <1>6 DEF MainStep, Environment, SyncStep, Surroundings, restVars
<1> QED BY <1>2, <1>3, <1>4, <1>5, <1>6 DEF Next, CoroStep

-----------------------------------------------------------------------------
(* Control returns to a coroutine, a thread or nobody, whatever the step.  *)
CalleeOK == callee \in [Callers -> Coros \cup {None}]

(* Every step keeps this type: whoever hands over control has a name.      *)
LEMMA CalleeType ==
  ASSUME TypeOK, Next
  PROVE  CalleeOK'
<1> USE DEF CalleeOK
<1>0. /\ callee \in [Callers -> Coros \cup {None}]
      /\ Parent \in Coros /\ Children \subseteq Coros /\ Main \in Callers
      /\ \A x \in Callers : waking[x] # <<>> => Head(waking[x]) \in Coros
  BY NamesDiffer, ToSetTail DEF TypeOK
<1>1. \A c : Returned(c) => CalleeOK'
  BY <1>0 DEF Returned
<1>2. \A c, to : Leave(c, to) => CalleeOK'
  BY <1>1 DEF Leave
<1>3. UNCHANGED callee => CalleeOK'
  BY <1>0
<1>4. ASSUME NEW c, NEW e, Awaits(c, e) PROVE CalleeOK'
  <2>1. UNCHANGED callee \/ Returned(c)
    BY <1>4 DEF Awaits, AwaiterStep, AwaitReady, LoadState, Push, PushAgain, DoNotSuspend
  <2> QED BY <2>1, <1>1, <1>3
<1>5. ASSUME NEW c \in Children, AwaitsToken(c) PROVE CalleeOK'
  <2>1. UNCHANGED callee \/ Leave(c, "suspended")
    BY <1>5 DEF AwaitsToken, AwaitToken, RegisterOnToken
  <2> QED BY <2>1, <1>2, <1>3
<1>6. ASSUME NEW x \in Callers, Wakes(x) PROVE CalleeOK'
  BY <1>0, <1>6 DEF Wakes, Wake, ResumeNext
<1>8. ASSUME NEW c \in Coros, AnyActs(c) PROVE CalleeOK'
  <2>1. UNCHANGED callee \/ Leave(c, "done")
    BY <1>8 DEF AnyActs, CompleteChild, Complete, Claim, TryClaimFirst, PublishStep, SetNotify,
         SetEvent, CoAwaitNotify, TakeResult, CancelLosers
  <2> QED BY <2>1, <1>2, <1>3
<1>9. ASSUME NEW c \in Coros, AllActs(c) PROVE CalleeOK'
  <2>1. \/ UNCHANGED callee \/ Leave(c, "done") \/ Leave(Parent, "latched")
        \/ c \in Callers /\ callee' = [callee EXCEPT ![c] = Parent]
    BY <1>9, NamesDiffer DEF AllActs, CompleteTask, Complete, FailedChild, FinalSuspend, Arrive,
         TryAwait, TakeAll
  <2> QED BY <2>1, <1>0, <1>2, <1>3
<1>10. ASSUME Surroundings PROVE CalleeOK'
  <2>1. \/ UNCHANGED callee \/ Leave(Parent, "done")
        \/ \E c \in Children : callee' = [callee EXCEPT ![Parent] = c]
        \/ callee' = [callee EXCEPT ![Main] = Parent]
    BY <1>10 DEF Surroundings, Spawn, SyncStart, SyncWait, SpuriousWakeup, SyncSet, SetGate,
         SetEvent, eventVars
  <2>2. \A c \in Children : callee' = [callee EXCEPT ![Parent] = c] => CalleeOK'
    BY <1>0
  <2> QED BY <2>1, <2>2, <1>0, <1>2, <1>3
<1>11. ASSUME NEW c \in Coros, Quits(c) PROVE CalleeOK'
  BY <1>1, <1>3, <1>11 DEF Quits
<1> QED BY <1>4, <1>5, <1>6, <1>8, <1>9, <1>10, <1>11, StepKinds

(* The types are kept, by each kind of step.                               *)
EventType == [set : BOOLEAN, waiters : Seq(Coros)]

(* What one awaiter does.                                                  *)
LEMMA AwaitsTypes ==
  ASSUME TypeOK, NEW c \in Coros, NEW e \in Events, Awaits(c, e)
  PROVE  /\ state' \in [Events -> EventType] /\ seen' \in [Coros -> EventType]
         /\ point' \in [Coros -> Points]
         /\ UNCHANGED <<waking, sharedVars, restVars>>
<1> USE DEF EventType
<1>0. /\ state \in [Events -> EventType] /\ seen \in [Coros -> EventType]
      /\ point \in [Coros -> Points]
      /\ {"load", "push", "suspended", "resume"} \subseteq Points
  BY DEF TypeOK, Points, AwaitPoints
<1>1. /\ UNCHANGED <<sharedVars, restVars>> /\ AwaiterStep(c, e)
  BY DEF Awaits
<1>2. CASE AwaitReady(c, e)
  BY <1>0, <1>1, <1>2 DEF AwaitReady, Goto
<1>3. CASE LoadState(c, e)
  BY <1>0, <1>1, <1>3 DEF LoadState, Goto
<1>4. CASE Push(c, e)
  <2> DEFINE q == <<c>> \o state[e].waiters
  <2>1. q \in Seq(Coros)
    BY <1>0, ToSetPrepend
  <2>2. state' = [state EXCEPT ![e].waiters = q]
    BY <1>4 DEF Push
  <2> HIDE DEF q
  <2>3. state' \in [Events -> EventType]
    BY <1>0, <2>1, <2>2
  <2> QED BY <1>0, <1>1, <1>4, <2>3 DEF Push, Goto
<1>5. CASE PushAgain(c, e)
  BY <1>0, <1>1, <1>5 DEF PushAgain
<1>6. CASE DoNotSuspend(c)
  BY <1>0, <1>1, <1>6 DEF DoNotSuspend, Goto
<1> QED BY <1>1, <1>2, <1>3, <1>4, <1>5, <1>6 DEF AwaiterStep

(* What set() does.                                                        *)
LEMMA SetEventTypes ==
  ASSUME TypeOK, NEW x \in Callers, NEW e \in Events, SetEvent(x, e)
  PROVE  /\ state' = [state EXCEPT ![e] = [set |-> TRUE, waiters |-> <<>>]]
         /\ waking' = [waking EXCEPT ![x] = state[e].waiters]
         /\ state' \in [Events -> EventType] /\ waking' \in [Callers -> Seq(Coros)]
         /\ UNCHANGED <<seen, callee>>
  BY DEF TypeOK, SetEvent, TakeWaiters, EventType

(* The exception that when_all rethrows is that of the first failure, and  *)
(* there is one if and only if some child has failed.                      *)
LEMMA FirstFailureIs ==
  /\ FirstFailure.kind = "value" <=> \A c \in Children : outcome[c] = "value"
  /\ FirstFailure.kind # "value" => /\ FirstFailure.by \in Children
                                    /\ FirstFailure.kind = outcome[FirstFailure.by]
  /\ FirstFailure.kind = "value" => FirstFailure.by = None
  /\ FirstFailure = [by |-> FirstFailure.by, kind |-> FirstFailure.kind]
<1>1. /\ Tasks \in Seq(Coros) /\ DOMAIN Tasks = 1..Len(Tasks) /\ Len(Tasks) \in Nat
      /\ \A c \in Children : \E i \in DOMAIN Tasks : Tasks[i] = c
      /\ \A i \in DOMAIN Tasks : Tasks[i] \in Children
  BY CombinatorAssumption DEF Children, ToSet
<1>2. CASE Failures = {}
  BY <1>1, <1>2 DEF Failures, FirstFailure
<1>3. CASE Failures # {}
  <2> DEFINE i == CHOOSE i \in Failures : \A j \in Failures : i <= j
  <2>1. Failures \in SUBSET Nat
    BY <1>1 DEF Failures
  <2>2. \E k \in Failures : \A j \in Failures : k <= j
    BY <1>3, <2>1, LeastNatural
  <2>3. i \in Failures
    BY <2>2
  <2>4. FirstFailure = [by |-> Tasks[i], kind |-> outcome[Tasks[i]]]
    BY <1>3 DEF FirstFailure
  <2> HIDE DEF i
  <2> QED BY <1>1, <2>3, <2>4 DEF Failures
<1> QED BY <1>2, <1>3

(* What a step of when_any itself does to the types,                       *)
LEMMA AnyTypes ==
  ASSUME CombinatorInductive, NEW c \in Coros, AnyActs(c)
  PROVE  (TypeOK /\ CalleeOK') => TypeOK'
<1> SUFFICES ASSUME CalleeOK' PROVE TypeOK'
  OBVIOUS
<1> USE DEF CalleeOK
<1>0. /\ TypeOK /\ OutcomeInv /\ WakingInv
      /\ c \in Callers /\ Children \subseteq Coros /\ Coros \subseteq Callers /\ Parent \in Coros
      /\ Notify \in Events
      /\ {"claim", "publish", "notify", "waking", "done", "ready", "cancel", "cancelling",
          "final"} \subseteq Points
  BY NamesDiffer DEF CombinatorInductive, Points, AwaitPoints
<1>1. UNCHANGED <<count, combinator>> /\ combinator = "any"
  BY DEF AnyActs
<1>2. CASE c \in Children /\ CompleteChild(c)
  <2>1. PICK k \in Kinds : outcome' = [outcome EXCEPT ![c] = k]
    BY <1>2 DEF CompleteChild, Complete, Kinds
  <2>2. outcome' \in [Children -> Kinds \cup {None}]
    BY <1>0, <1>2, <2>1 DEF TypeOK
  <2> QED BY <1>0, <1>1, <1>2, <2>2 DEF CompleteChild, Complete, TypeOK, anyVars, Goto
<1>3. CASE c \in Children /\ Claim(c)
  <2>1. point' \in [Coros -> Points] /\ completed' = TRUE
    BY <1>0, <1>3 DEF Claim, TryClaimFirst, Leave, Goto, TypeOK
  <2> QED BY <1>0, <1>1, <1>3, <2>1 DEF Claim, TypeOK, sharedVars
<1>4. CASE c \in Children /\ PublishStep(c)
  <2>1. point' \in [Coros -> Points]
    BY <1>0, <1>4 DEF PublishStep, Publish, Goto, TypeOK
  <2>2. outcome[c] \in Kinds
    BY <1>0, <1>4 DEF PublishStep, OutcomeInv, Before, TypeOK
  <2>3. outcome' \in [Children -> Kinds \cup {None}]
    BY <1>0, <1>4 DEF PublishStep, Publish, TypeOK, Kinds
  <2>4. result' \in [by : Children, kind : Kinds] \cup {NoResult}
    BY <1>0, <1>4, <2>2 DEF PublishStep, Publish, TypeOK
  <2> QED BY <1>0, <1>1, <1>4, <2>1, <2>3, <2>4 DEF PublishStep, TypeOK
<1>5. CASE c \in Children /\ SetNotify(c)
  <2>1. point' \in [Coros -> Points]
    BY <1>0, <1>5 DEF SetNotify, Goto, TypeOK
  <2>2. /\ state' \in [Events -> EventType] /\ waking' \in [Callers -> Seq(Coros)]
        /\ UNCHANGED seen
    BY <1>0, <1>5, SetEventTypes DEF SetNotify
  <2> QED BY <1>0, <1>1, <1>5, <2>1, <2>2
             DEF SetNotify, TypeOK, sharedVars, anyVars, EventType
<1>6. CASE c = Parent /\ CoAwaitNotify
  BY <1>0, <1>1, <1>6 DEF CoAwaitNotify, Goto, TypeOK, sharedVars, anyVars
<1>7. CASE c = Parent /\ TakeResult
  <2>1. point' \in [Coros -> Points]
    BY <1>0, <1>7 DEF TakeResult, Goto, TypeOK
  <2>2. taken' \in [by : Children \cup {None}, kind : Kinds \cup {None}]
    BY <1>0, <1>7 DEF TakeResult, TypeOK, NoResult
  <2> QED BY <1>0, <1>1, <1>7, <2>1, <2>2 DEF TakeResult, TypeOK, anyVars
<1>8. CASE c = Parent /\ CancelLosers
  <2>1. /\ point' \in [Coros -> Points] /\ waking' \in [Callers -> Seq(Coros)]
        /\ onToken' \in Seq(Coros) /\ cancelled' = TRUE
    BY <1>0, <1>8 DEF CancelLosers, RequestCancellation, Goto, TypeOK
  <2> QED BY <1>0, <1>1, <1>8, <2>1 DEF CancelLosers, TypeOK, anyVars
<1> QED BY <1>2, <1>3, <1>4, <1>5, <1>6, <1>7, <1>8 DEF AnyActs

(* The children are as many as the arguments.                              *)
LEMMA ChildrenCounted == IsFiniteSet(Children) /\ Cardinality(Children) = Len(Tasks)
<1>1. /\ Len(Tasks) \in Nat /\ DOMAIN Tasks = 1..Len(Tasks) /\ IsInjective(Tasks)
      /\ Tasks \in [1..Len(Tasks) -> Children]
      /\ \A c \in Children : \E i \in 1..Len(Tasks) : Tasks[i] = c
  BY CombinatorAssumption DEF Children, ToSet
<1>2. Tasks \in Bijection(1..Len(Tasks), Children)
  BY <1>1 DEF Bijection, Injection, Surjection
<1>3. ExistsBijection(1..Len(Tasks), Children)
  BY <1>2 DEF ExistsBijection
<1> QED BY <1>1, <1>3, FS_NatBijection, FS_CountingElements

(* So are those that have not arrived, at most.                            *)
LEMMA NotArrivedFinite ==
  /\ IsFiniteSet(NotArrived) /\ Cardinality(NotArrived) \in Nat
  /\ IsFiniteSet(NotArrived') /\ Cardinality(NotArrived') \in Nat
<1>1. NotArrived \subseteq Children /\ NotArrived' \subseteq Children
  BY DEF NotArrived
<1> QED BY <1>1, ChildrenCounted, FS_Subset, FS_CardinalityType

(* The latch is not at zero while there is somebody to take it down.       *)
LEMMA LatchIsPositive ==
  ASSUME TypeOK, LatchCounts,
         NotArrived # {} \/ point[Parent] = "spawn"
  PROVE  count \in 1..(Len(Tasks) + 1) /\ count - 1 \in 0..(Len(Tasks) + 1)
<1>1. NotArrived # {} => Cardinality(NotArrived) # 0
  BY NotArrivedFinite, FS_EmptySet
<1>2. count # 0
  BY <1>1, NotArrivedFinite DEF LatchCounts
<1>3. Len(Tasks) \in Nat /\ count \in 0..(Len(Tasks) + 1)
  BY CombinatorAssumption DEF TypeOK
<1> QED BY <1>2, <1>3

(* of when_all itself,                                                     *)
LEMMA AllTypes ==
  ASSUME CombinatorInductive, NEW c \in Coros, AllActs(c)
  PROVE  (TypeOK /\ CalleeOK') => TypeOK'
<1> SUFFICES ASSUME CalleeOK' PROVE TypeOK'
  OBVIOUS
<1> USE DEF CalleeOK
<1>0. /\ TypeOK /\ LatchCounts
      /\ c \in Callers /\ Children \subseteq Coros /\ Coros \subseteq Callers /\ Parent \in Coros
      /\ {"failed", "arrive", "cancelling", "leaving", "latched", "resume", "done",
          "final"} \subseteq Points
  BY NamesDiffer DEF CombinatorInductive, AllJoined, AllActs, Points, AwaitPoints
<1>1. UNCHANGED <<completed, result, combinator>>
  BY DEF AllActs, anyVars
<1>2. CASE c \in Children /\ CompleteTask(c)
  <2>1. PICK k \in Kinds : outcome' = [outcome EXCEPT ![c] = k]
    BY <1>2 DEF CompleteTask, Complete, Kinds
  <2>2. outcome' \in [Children -> Kinds \cup {None}]
    BY <1>0, <1>2, <2>1 DEF TypeOK
  <2>3. point' \in [Coros -> Points]
    BY <1>0, <1>2 DEF CompleteTask, Complete, Goto, TypeOK
  <2> QED BY <1>0, <1>1, <1>2, <2>2, <2>3 DEF CompleteTask, Complete, TypeOK
<1>3. CASE c \in Children /\ FailedChild(c)
  <2>1. point' \in [Coros -> Points]
    BY <1>0, <1>3 DEF FailedChild, Goto, TypeOK
  <2>2. /\ waking' \in [Callers -> Seq(Coros)] /\ onToken' \in Seq(Coros)
        /\ cancelled' \in BOOLEAN
    <3>1. /\ waking \in [Callers -> Seq(Coros)] /\ onToken \in Seq(Coros)
          /\ cancelled \in BOOLEAN /\ <<>> \in Seq(Coros)
      BY <1>0 DEF TypeOK
    <3>2. CASE hasSource
      BY <1>0, <1>3, <3>1, <3>2 DEF FailedChild, RequestCancellation
    <3>3. CASE ~hasSource
      BY <1>3, <3>1, <3>3 DEF FailedChild
    <3> QED BY <3>2, <3>3
  <2> QED BY <1>0, <1>1, <1>3, <2>1, <2>2 DEF FailedChild, TypeOK
<1>4. CASE c \in Children /\ point[c] = "arrive" /\ FinalSuspend(c)
  <2>1. c \in NotArrived
    BY <1>4 DEF NotArrived
  <2>2. count' = count - 1 /\ count - 1 \in 0..(Len(Tasks) + 1)
    BY <1>0, <1>4, <2>1, LatchIsPositive DEF FinalSuspend, Arrive
  <2>3. point' \in [Coros -> Points]
    BY <1>0, <1>4 DEF FinalSuspend, Arrive, Leave, Goto, TypeOK
  <2> QED BY <1>0, <1>1, <1>4, <2>2, <2>3 DEF FinalSuspend, TypeOK, sharedVars
<1>5. CASE TryAwait
  <2>1. count' = count - 1 /\ count - 1 \in 0..(Len(Tasks) + 1)
    BY <1>0, <1>5, LatchIsPositive DEF TryAwait, AllSpawned
  <2>2. point' \in [Coros -> Points]
    BY <1>0, <1>5 DEF TryAwait, Leave, Goto, TypeOK
  <2> QED BY <1>0, <1>1, <1>5, <2>1, <2>2 DEF TryAwait, TypeOK, sharedVars
<1>6. CASE TakeAll
  <2>1. FirstFailure \in [by : Children \cup {None}, kind : Kinds \cup {None}]
    <3>1. /\ FirstFailure.by \in Children \cup {None}
          /\ FirstFailure.kind \in Kinds \cup {None}
      BY <1>0, FirstFailureIs DEF TypeOK, Kinds
    <3> QED BY <3>1, FirstFailureIs
  <2>2. point' \in [Coros -> Points]
    BY <1>0, <1>6 DEF TakeAll, Goto, TypeOK
  <2> QED BY <1>0, <1>1, <1>6, <2>1, <2>2 DEF TakeAll, TypeOK
<1> QED BY <1>2, <1>3, <1>4, <1>5, <1>6 DEF AllActs

(* of sync_wait(), a start and a gate.                                     *)
LEMMA SurroundingTypes ==
  ASSUME TypeOK, CalleeOK', Surroundings
  PROVE  TypeOK'
<1> USE DEF CalleeOK
<1>0. /\ Children \subseteq Coros /\ Parent \in Coros /\ Threads \subseteq Callers
      /\ {"ready", "spawn", "done"} \subseteq Points
  BY NamesDiffer DEF Points, AwaitPoints
<1>1. UNCHANGED <<completed, result, count, combinator>>
  BY DEF Surroundings, restVars, anyVars
<1>2. ASSUME NEW c \in Children, Spawn(c) PROVE TypeOK'
  BY <1>0, <1>1, <1>2 DEF Spawn, Goto, TypeOK, sharedVars
<1>3. CASE SyncStart
  BY <1>0, <1>1, <1>3 DEF SyncStart, Goto, TypeOK
<1>4. CASE SyncWait \/ SpuriousWakeup
  BY <1>1, <1>4 DEF SyncWait, SpuriousWakeup, TypeOK, eventVars
<1>5. CASE SyncSet
  BY <1>0, <1>1, <1>5 DEF SyncSet, Leave, Goto, TypeOK
<1>6. ASSUME NEW t \in Threads, SetGate(t) PROVE TypeOK'
  <2>1. PICK e \in Events : SetEvent(t, e)
    BY <1>6 DEF SetGate
  <2>2. /\ state' \in [Events -> EventType] /\ waking' \in [Callers -> Seq(Coros)]
        /\ UNCHANGED <<seen, callee>>
    BY <1>0, <1>6, <2>1, SetEventTypes
  <2> QED BY <1>1, <1>6, <2>2 DEF SetGate, TypeOK, sharedVars, EventType
<1> QED BY <1>2, <1>3, <1>4, <1>5, <1>6 DEF Surroundings

(* Every step keeps the types.                                             *)
LEMMA TypesKept ==
  ASSUME CombinatorInductive, Next
  PROVE  TypeOK'
<1>0. TypeOK /\ CalleeOK'
  BY CalleeType DEF CombinatorInductive
<1>1. ASSUME NEW c \in Coros, NEW e \in Events, Awaits(c, e) PROVE TypeOK'
  BY <1>0, <1>1, AwaitsTypes DEF TypeOK, CalleeOK, EventType, sharedVars, restVars, anyVars
<1>2. ASSUME NEW c \in Children, AwaitsToken(c) PROVE TypeOK'
  <2>1. point' \in [Coros -> Points]
    <3>1. PICK to \in {"register", "resume", "suspended"} :
            point' = [point EXCEPT ![c] = to]
      <4>1. CASE AwaitToken(c)
        BY <4>1 DEF AwaitToken, Goto
      <4>2. CASE RegisterOnToken(c)
        BY <4>2 DEF RegisterOnToken, Leave, Goto
      <4> QED BY <1>2, <4>1, <4>2 DEF AwaitsToken
    <3>2. point \in [Coros -> Points] /\ to \in Points
      BY <1>0 DEF TypeOK, Points, AwaitPoints
    <3> QED BY <3>1, <3>2
  <2>2. onToken' \in Seq(Coros)
    <3>1. onToken \in Seq(Coros) /\ Append(onToken, c) \in Seq(Coros)
      BY <1>0, NamesDiffer, ToSetAppend DEF TypeOK
    <3>2. onToken' = onToken \/ onToken' = Append(onToken, c)
      BY <1>2 DEF AwaitsToken, AwaitToken, RegisterOnToken, sharedVars
    <3> QED BY <3>1, <3>2
  <2>3. UNCHANGED <<state, seen, waking, hasSource, cancelled, outcome, taken, isSet, main>>
    BY <1>2 DEF AwaitsToken, AwaitToken, RegisterOnToken, sharedVars
  <2> QED BY <1>0, <1>2, <2>1, <2>2, <2>3
             DEF AwaitsToken, TypeOK, CalleeOK, restVars, anyVars
<1>3. ASSUME NEW x \in Callers, Wakes(x) PROVE TypeOK'
  <2>1. /\ waking[x] \in Seq(Coros) /\ waking[x] # <<>> /\ Head(waking[x]) \in Coros
        /\ Tail(waking[x]) \in Seq(Coros)
    BY <1>0, <1>3, ToSetTail DEF Wakes, Wake, ResumeNext, TypeOK
  <2>2. point' \in [Coros -> Points] /\ waking' \in [Callers -> Seq(Coros)]
    BY <1>0, <1>3, <2>1 DEF Wakes, Wake, ResumeNext, Goto, TypeOK, Points, AwaitPoints
  <2> QED BY <1>0, <1>3, <2>2 DEF Wakes, Wake, ResumeNext, TypeOK, CalleeOK, restVars, anyVars,
             sharedVars
<1>4. ASSUME NEW c \in Coros, Quits(c) PROVE TypeOK'
  <2>1. point' \in [Coros -> Points]
    BY <1>0, <1>4 DEF Quits, Goto, TypeOK, Points
  <2> QED BY <1>0, <1>4, <2>1 DEF Quits, TypeOK, CalleeOK, restVars, anyVars, sharedVars
<1> QED BY <1>0, <1>1, <1>2, <1>3, <1>4, StepKinds, AnyTypes, AllTypes, SurroundingTypes

-----------------------------------------------------------------------------
(* What each kind of step does to the lists.  A list is left alone;        *)
ListsAlone == UNCHANGED <<state, waking, onToken>> /\ Suspended' = Suspended

(* c suspends in the list of event e;                                      *)
EntersEvent(c, e) ==
  /\ point[c] = "push" /\ ~state[e].set
  /\ state' = [state EXCEPT ![e].waiters = <<c>> \o @]
  /\ Goto(c, "suspended")
  /\ UNCHANGED <<waking, onToken, cancelled>>

(* c suspends in the list of the token;                                    *)
EntersToken(c) ==
  /\ point[c] = "register" /\ ~cancelled
  /\ onToken' = Append(onToken, c)
  /\ Goto(c, "suspended")
  /\ UNCHANGED <<state, waking, cancelled>>

(* x takes the list of an event;                                           *)
TakesEvent(x, e) ==
  /\ waking[x] = <<>>
  /\ state' = [state EXCEPT ![e] = [set |-> TRUE, waiters |-> <<>>]]
  /\ waking' = [waking EXCEPT ![x] = state[e].waiters]
  /\ Suspended' = Suspended
  /\ UNCHANGED <<onToken, cancelled>>

(* x takes the list of the token.                                          *)
TakesToken(x) ==
  /\ waking[x] = <<>>
  /\ RequestCancellation(x)
  /\ Suspended' = Suspended
  /\ UNCHANGED state

(* Moving from one point to another that are not "suspended".              *)
LEMMA MovesAwake ==
  ASSUME TypeOK, NEW c \in Coros, NEW to, point[c] # "suspended", to # "suspended",
         Goto(c, to)
  PROVE  Suspended' = Suspended
  BY DEF TypeOK, Goto, Suspended

(* Every step but a wake-up is one of these.                               *)
LEMMA ListEffects ==
  ASSUME CombinatorInductive, Next
  PROVE  \/ ListsAlone /\ (cancelled' => cancelled)
         \/ \E c \in Coros, e \in Events : EntersEvent(c, e)
         \/ \E c \in Coros : EntersToken(c)
         \/ \E x \in Callers, e \in Events : TakesEvent(x, e)
         \/ \E x \in Callers : TakesToken(x)
         \/ \E x \in Callers : Wakes(x)
<1> DEFINE Goal == \/ ListsAlone /\ (cancelled' => cancelled)
                   \/ \E c \in Coros, e \in Events : EntersEvent(c, e)
                   \/ \E c \in Coros : EntersToken(c)
                   \/ \E x \in Callers, e \in Events : TakesEvent(x, e)
                   \/ \E x \in Callers : TakesToken(x)
                   \/ \E x \in Callers : Wakes(x)
<1>0. /\ TypeOK /\ WakingInv /\ Children \subseteq Coros /\ Coros \subseteq Callers
      /\ Parent \in Coros /\ Notify \in Events /\ Threads \subseteq Callers
      /\ \A c \in Coros : point[c] \notin {"waking", "cancelling"} => waking[c] = <<>>
  BY NamesDiffer DEF CombinatorInductive, WakingInv
<1>1. ASSUME NEW c \in Coros, NEW e \in Events, Awaits(c, e) PROVE Goal
  <2>1. UNCHANGED <<waking, onToken, cancelled>> /\ AwaiterStep(c, e)
    BY <1>0, <1>1, AwaitsTypes DEF Awaits, sharedVars
  <2>2. CASE AwaitReady(c, e)
    <3>1. UNCHANGED state /\ point[c] = "ready" /\ (Goto(c, "resume") \/ Goto(c, "load"))
      BY <2>2 DEF AwaitReady
    <3> QED BY <1>0, <2>1, <3>1, MovesAwake DEF ListsAlone
  <2>3. CASE LoadState(c, e)
    BY <1>0, <2>1, <2>3, MovesAwake DEF LoadState, ListsAlone
  <2>4. CASE point[c] = "push" /\ Push(c, e)
    BY <1>0, <2>1, <2>4 DEF Push, EntersEvent
  <2>5. CASE PushAgain(c, e)
    BY <1>0, <2>1, <2>5 DEF PushAgain, ListsAlone, Suspended
  <2>6. CASE point[c] = "push" /\ DoNotSuspend(c)
    BY <1>0, <2>1, <2>6, MovesAwake DEF DoNotSuspend, ListsAlone
  <2> QED BY <2>1, <2>2, <2>3, <2>4, <2>5, <2>6 DEF AwaiterStep
<1>2. ASSUME NEW c \in Children, AwaitsToken(c) PROVE Goal
  <2>1. CASE AwaitToken(c)
    <3>1. /\ UNCHANGED <<state, waking, onToken, cancelled>> /\ point[c] = "ready"
          /\ Goto(c, "register") \/ Goto(c, "resume")
      BY <2>1 DEF AwaitToken, sharedVars
    <3> QED BY <1>0, <3>1, MovesAwake DEF ListsAlone
  <2>2. CASE RegisterOnToken(c) /\ cancelled
    <3>1. UNCHANGED <<state, waking, onToken, cancelled>> /\ point[c] = "register"
          /\ Goto(c, "resume")
      BY <2>2 DEF RegisterOnToken
    <3> QED BY <1>0, <3>1, MovesAwake DEF ListsAlone
  <2>3. CASE RegisterOnToken(c) /\ ~cancelled
    BY <1>0, <2>3 DEF RegisterOnToken, EntersToken, Leave
  <2> QED BY <1>2, <2>1, <2>2, <2>3 DEF AwaitsToken
<1>3. ASSUME NEW c \in Coros, Quits(c) PROVE Goal
  <2>1. /\ UNCHANGED <<state, waking, onToken, cancelled>>
        /\ point[c] \in {"waking", "cancelling", "leaving"}
        /\ Goto(c, "done") \/ Goto(c, "final") \/ Goto(c, "arrive")
    BY <1>3 DEF Quits, sharedVars
  <2> QED BY <1>0, <2>1, MovesAwake DEF ListsAlone
<1>4. ASSUME NEW c \in Coros, AnyActs(c) PROVE Goal
  <2>1. CASE c \in Children /\ (CompleteChild(c) \/ Claim(c) \/ PublishStep(c))
    <3>1. /\ UNCHANGED <<state, waking, onToken, cancelled>>
          /\ point[c] \in {"resume", "claim", "publish"}
          /\ \/ Goto(c, "claim") \/ Goto(c, "publish") \/ Goto(c, "done") \/ Goto(c, "notify")
      BY <2>1 DEF CompleteChild, Complete, Claim, TryClaimFirst, Leave, PublishStep, Publish,
           sharedVars
    <3> QED BY <1>0, <3>1, MovesAwake DEF ListsAlone
  <2>2. CASE c \in Children /\ SetNotify(c)
    <3>1. c \in Callers /\ SetEvent(c, Notify) /\ point[c] = "notify" /\ Goto(c, "waking")
          /\ UNCHANGED <<onToken, cancelled>>
      BY <1>0, <2>2 DEF SetNotify, sharedVars
    <3>2. TakesEvent(c, Notify)
      BY <1>0, <3>1, SetEventTypes, MovesAwake DEF TakesEvent
    <3> QED BY <1>0, <3>1, <3>2
  <2>3. CASE c = Parent /\ (CoAwaitNotify \/ TakeResult)
    <3>1. /\ UNCHANGED <<state, waking, onToken, cancelled>>
          /\ point[c] \in {"spawn", "resume"}
          /\ Goto(c, "ready") \/ Goto(c, "cancel") \/ Goto(c, "final")
      BY <2>3 DEF CoAwaitNotify, AllSpawned, TakeResult, sharedVars
    <3> QED BY <1>0, <3>1, MovesAwake DEF ListsAlone
  <2>4. CASE c = Parent /\ CancelLosers
    <3>1. /\ point[Parent] = "cancel" /\ Goto(Parent, "cancelling")
          /\ RequestCancellation(Parent) /\ UNCHANGED state
      BY <2>4 DEF CancelLosers
    <3>2. TakesToken(Parent)
      BY <1>0, <3>1, MovesAwake DEF TakesToken
    <3> QED BY <1>0, <3>2
  <2> QED BY <1>4, <2>1, <2>2, <2>3, <2>4 DEF AnyActs
<1>5. ASSUME NEW c \in Coros, AllActs(c) PROVE Goal
  <2>1. CASE c \in Children /\ CompleteTask(c)
    <3>1. /\ UNCHANGED <<state, waking, onToken, cancelled>>
          /\ point[c] = "resume" /\ (Goto(c, "failed") \/ Goto(c, "arrive"))
      BY <2>1 DEF CompleteTask, Complete
    <3> QED BY <1>0, <3>1, MovesAwake DEF ListsAlone
  <2>2. CASE c \in Children /\ FailedChild(c)
    <3>1. /\ point[c] = "failed" /\ Goto(c, "cancelling") /\ UNCHANGED state
          /\ RequestCancellation(c) \/ UNCHANGED <<waking, onToken, cancelled>>
      BY <2>2 DEF FailedChild
    <3>2. (ListsAlone /\ (cancelled' => cancelled)) \/ TakesToken(c)
      BY <1>0, <3>1, MovesAwake DEF TakesToken, ListsAlone
    <3> QED BY <1>0, <3>2
  <2>3. CASE c \in Children /\ point[c] = "arrive" /\ FinalSuspend(c)
    <3>1. /\ UNCHANGED <<state, waking, onToken, cancelled>>
          /\ \/ Goto(c, "done")
             \/ point' = [point EXCEPT ![c] = "leaving", ![Parent] = "resume"]
      BY <2>3 DEF FinalSuspend, Arrive, Leave, sharedVars
    <3>2. point[Parent] # "suspended"
      BY <1>5 DEF CombinatorInductive, AllActs, PointsInv, AllParent
    <3>3. Suspended' = Suspended
      BY <1>0, <2>3, <3>1, <3>2, MovesAwake DEF Suspended, TypeOK
    <3> QED BY <3>1, <3>3 DEF ListsAlone
  <2>4. CASE c = Parent /\ (TryAwait \/ TakeAll)
    <3>1. /\ UNCHANGED <<state, waking, onToken, cancelled>>
          /\ point[c] \in {"spawn", "resume"}
          /\ Goto(c, "latched") \/ Goto(c, "resume") \/ Goto(c, "final")
      BY <2>4 DEF TryAwait, AllSpawned, TakeAll, Leave, sharedVars
    <3> QED BY <1>0, <3>1, MovesAwake DEF ListsAlone
  <2> QED BY <1>5, <2>1, <2>2, <2>3, <2>4 DEF AllActs
<1>6. CASE Surroundings
  <2>1. ASSUME NEW c \in Children, Spawn(c) PROVE Goal
    <3>1. /\ UNCHANGED <<state, waking, onToken, cancelled>>
          /\ point[c] = "unspawned" /\ Goto(c, "ready")
      BY <2>1 DEF Spawn, sharedVars
    <3> QED BY <1>0, <3>1, MovesAwake DEF ListsAlone
  <2>2. CASE SyncStart \/ SyncSet
    <3>1. /\ UNCHANGED <<state, waking, onToken, cancelled>>
          /\ point[Parent] # "suspended" /\ (Goto(Parent, "spawn") \/ Goto(Parent, "done"))
      BY <2>2 DEF SyncStart, SyncSet, Leave, CombinatorInductive, SyncInv
    <3> QED BY <1>0, <3>1, MovesAwake DEF ListsAlone
  <2>3. CASE SyncWait \/ SpuriousWakeup
    BY <2>3 DEF SyncWait, SpuriousWakeup, eventVars, ListsAlone, Suspended
  <2>4. ASSUME NEW t \in Threads, SetGate(t) PROVE Goal
    <3>1. PICK e \in Events : SetEvent(t, e)
      BY <2>4 DEF SetGate
    <3>2. t \in Callers /\ waking[t] = <<>> /\ UNCHANGED <<onToken, cancelled, point>>
      BY <1>0, <2>4 DEF SetGate, SetReturns, sharedVars
    <3>3. TakesEvent(t, e)
      BY <1>0, <3>1, <3>2, SetEventTypes DEF TakesEvent, Suspended
    <3> QED BY <3>2, <3>3
  <2> QED BY <1>6, <2>1, <2>2, <2>3, <2>4 DEF Surroundings
<1> QED BY <1>1, <1>2, <1>3, <1>4, <1>5, <1>6, StepKinds

-----------------------------------------------------------------------------
(* One coroutine moves on, or none, and no child's outcome changes.        *)
LEMMA OneMoves ==
  ASSUME CombinatorInductive, NEW c \in Coros,
         point' = [point EXCEPT ![c] = point'[c]],
         UNCHANGED <<combinator, outcome>>, cancelled => cancelled',
         \A d \in Coros : waking'[d] # <<>> =>
            \/ waking[d] # <<>> /\ d # c
            \/ point'[d] \in {"waking", "cancelling"},
         c \in Children =>
           /\ point'[c] \in Before <=> point[c] \in Before
           /\ point'[c] = "failed" => point[c] = "failed"
           /\ point'[c] \in IF combinator = "any" THEN AnyChild ELSE AllChild,
         c = Parent => point'[c] \in IF combinator = "any" THEN AnyParent ELSE AllParent
  PROVE  PointsInv' /\ OutcomeInv' /\ WakingInv'
<1>0. /\ TypeOK /\ PointsInv /\ OutcomeInv /\ WakingInv
      /\ Children \subseteq Coros /\ Parent \in Coros /\ Parent \notin Children
      /\ \A d \in Coros : d # c => point'[d] = point[d]
      /\ combinator = "any" \/ combinator = "all"
  BY NamesDiffer DEF CombinatorInductive, TypeOK
<1>1. PointsInv'
  BY <1>0 DEF PointsInv
<1>2. OutcomeInv'
  BY <1>0 DEF OutcomeInv
<1>3. WakingInv'
  BY <1>0 DEF WakingInv
<1> QED BY <1>1, <1>2, <1>3

(* Where the coroutines are, and with which outcome and list, is kept.     *)
LEMMA PointsKept ==
  ASSUME CombinatorInductive, Next
  PROVE  PointsInv' /\ OutcomeInv' /\ WakingInv'
<1> DEFINE Goal == PointsInv' /\ OutcomeInv' /\ WakingInv'
<1>0. /\ TypeOK /\ PointsInv /\ OutcomeInv /\ WakingInv
      /\ Children \subseteq Coros /\ Parent \in Coros /\ Parent \notin Children
      /\ Coros \subseteq Callers
      /\ combinator = "any" \/ combinator = "all"
      /\ \A c \in Coros : c = Parent \/ c \in Children
      /\ point \in [Coros -> Points] /\ waking \in [Callers -> Seq(Coros)]
  BY NamesDiffer DEF CombinatorInductive, TypeOK
<1>1. ASSUME NEW c \in Coros, NEW e \in Events, Awaits(c, e) PROVE Goal
  <2>1. /\ UNCHANGED <<combinator, outcome, cancelled, waking>>
        /\ c = Parent => combinator = "any"
    BY <1>0, <1>1, AwaitsTypes DEF Awaits, sharedVars, restVars
  <2>2. /\ point' = [point EXCEPT ![c] = point'[c]]
        /\ point'[c] \in {"load", "push", "resume", "suspended"}
        /\ point[c] \in {"ready", "load", "push"}
    BY <1>0, <1>1 DEF Awaits, AwaiterStep, AwaitReady, LoadState, Push, PushAgain,
         DoNotSuspend, Goto
  <2> QED BY <1>0, <2>1, <2>2, OneMoves
             DEF WakingInv, Before, AnyChild, AnyParent, AllChild
<1>2. ASSUME NEW c \in Children, AwaitsToken(c) PROVE Goal
  <2>1. UNCHANGED <<combinator, outcome, cancelled, waking>>
    BY <1>2 DEF AwaitsToken, AwaitToken, RegisterOnToken, sharedVars, restVars
  <2>2. /\ point' = [point EXCEPT ![c] = point'[c]]
        /\ point'[c] \in {"register", "resume", "suspended"}
        /\ point[c] \in {"ready", "register"}
    BY <1>0, <1>2 DEF AwaitsToken, AwaitToken, RegisterOnToken, Leave, Goto
  <2> QED BY <1>0, <2>1, <2>2, OneMoves DEF WakingInv, Before, AnyChild, AllChild
<1>3. ASSUME NEW x \in Callers, Wakes(x) PROVE Goal
  <2>1. /\ UNCHANGED <<combinator, outcome, cancelled>> /\ waking[x] # <<>>
        /\ waking' = [waking EXCEPT ![x] = Tail(waking[x])]
        /\ Goto(Head(waking[x]), "resume")
    BY <1>3 DEF Wakes, Wake, ResumeNext, sharedVars, restVars
  <2>2. Head(waking[x]) \in Coros /\ Head(waking[x]) \in ToSet(waking[x])
    BY <1>0, <2>1, ToSetTail DEF TypeOK
  <2>3. PICK c \in Coros : c = Head(waking[x]) /\ point[c] = "suspended"
    BY <1>0, <2>2, WhoIsListed DEF CombinatorInductive
  <2>4. point' = [point EXCEPT ![c] = point'[c]] /\ point'[c] = "resume"
    BY <1>0, <2>1, <2>3 DEF Goto
  <2>5. c = Parent => combinator = "any"
    BY <1>0, <2>3 DEF PointsInv, AllParent
  <2>6. \A d \in Coros : waking'[d] # <<>> => waking[d] # <<>> /\ point[d] # "suspended"
    BY <1>0, <2>1 DEF WakingInv
  <2> QED BY <1>0, <2>1, <2>3, <2>4, <2>5, <2>6, OneMoves
             DEF Before, AnyChild, AllChild, AnyParent
<1>4. ASSUME NEW c \in Coros, Quits(c) PROVE Goal
  <2>1. /\ UNCHANGED <<combinator, outcome, cancelled, waking>>
        /\ point' = [point EXCEPT ![c] = point'[c]]
        /\ point[c] = "leaving" \/ waking[c] = <<>>
        /\ \/ /\ combinator = "any" /\ c \in Children
              /\ point[c] = "waking" /\ point'[c] = "done"
           \/ /\ combinator = "any" /\ c = Parent
              /\ point[c] = "cancelling" /\ point'[c] = "final"
           \/ /\ combinator = "all" /\ c \in Children
              /\ point[c] = "cancelling" /\ point'[c] = "arrive"
           \/ /\ combinator = "all" /\ c \in Children
              /\ point[c] = "leaving" /\ point'[c] = "done"
    BY <1>0, <1>4 DEF Quits, Goto, sharedVars, restVars
  <2>2. \A d \in Coros : waking'[d] # <<>> => waking[d] # <<>> /\ d # c
    BY <1>0, <2>1 DEF WakingInv
  <2> QED BY <1>0, <2>1, <2>2, OneMoves DEF Before, AnyChild, AllChild, AnyParent
<1>5. ASSUME NEW c \in Coros, AnyActs(c) PROVE Goal
  <2>0. combinator = "any" /\ UNCHANGED combinator
    BY <1>5 DEF AnyActs
  <2>1. CASE c \in Children /\ CompleteChild(c)
    <3>1. PICK k \in (IF cancelled THEN Kinds ELSE {"value", "exception"}) :
                 outcome' = [outcome EXCEPT ![c] = k]
      BY <2>1 DEF CompleteChild, Complete
    <3>2. /\ point[c] = "resume" /\ point' = [point EXCEPT ![c] = "claim"]
          /\ UNCHANGED <<cancelled, waking>>
          /\ outcome \in [Children -> Kinds \cup {None}]
          /\ k # None /\ (k = "cancelled" => cancelled)
      BY <1>0, <2>1, NamesDiffer DEF CompleteChild, Complete, Goto, TypeOK, Kinds
    <3>3. PointsInv'
      BY <1>0, <2>0, <2>1, <3>2 DEF PointsInv, AnyChild
    <3>4. OutcomeInv'
      BY <1>0, <2>1, <3>1, <3>2 DEF OutcomeInv, Before
    <3>5. WakingInv'
      BY <1>0, <2>1, <3>2 DEF WakingInv
    <3> QED BY <3>3, <3>4, <3>5
  <2>2. CASE c \in Children /\ Claim(c)
    <3>1. /\ UNCHANGED <<outcome, cancelled, waking>> /\ point[c] = "claim"
          /\ point' = [point EXCEPT ![c] = point'[c]] /\ point'[c] \in {"publish", "done"}
      BY <1>0, <2>2 DEF Claim, TryClaimFirst, Leave, Goto, sharedVars
    <3> QED BY <1>0, <2>0, <2>2, <3>1, OneMoves DEF WakingInv, Before, AnyChild
  <2>3. CASE c \in Children /\ PublishStep(c)
    <3>0. /\ UNCHANGED <<cancelled, waking>> /\ point[c] = "publish"
          /\ outcome \in [Children -> Kinds \cup {None}]
      BY <1>0, <2>3 DEF PublishStep, TypeOK
    <3>1. CASE UNCHANGED outcome /\ Goto(c, "notify")
      <4>1. point' = [point EXCEPT ![c] = point'[c]] /\ point'[c] = "notify"
        BY <1>0, <3>1 DEF Goto
      <4> QED BY <1>0, <2>0, <2>3, <3>0, <3>1, <4>1, OneMoves
                 DEF WakingInv, Before, AnyChild
    <3>2. CASE outcome' = [outcome EXCEPT ![c] = "exception"] /\ Goto(c, "claim")
      <4>1. PointsInv'
        BY <1>0, <2>0, <2>3, <3>2 DEF PointsInv, AnyChild, Goto
      <4>2. OutcomeInv'
        BY <1>0, <2>3, <3>0, <3>2, NamesDiffer DEF OutcomeInv, Before, Goto
      <4>3. WakingInv'
        BY <1>0, <3>0, <3>2 DEF WakingInv, Goto
      <4> QED BY <4>1, <4>2, <4>3
    <3> QED BY <2>3, <3>1, <3>2 DEF PublishStep, Publish
  <2>4. CASE c \in Children /\ SetNotify(c)
    <3>1. /\ UNCHANGED <<outcome, cancelled>> /\ point[c] = "notify"
          /\ point' = [point EXCEPT ![c] = point'[c]] /\ point'[c] = "waking"
          /\ \A d \in Coros : d # c => waking'[d] = waking[d]
      BY <1>0, <2>4 DEF SetNotify, SetEvent, Goto, sharedVars
    <3>2. \A d \in Coros : waking'[d] # <<>> =>
             \/ waking[d] # <<>> /\ d # c
             \/ point'[d] \in {"waking", "cancelling"}
      BY <3>1
    <3> QED BY <1>0, <2>0, <2>4, <3>1, <3>2, OneMoves DEF Before, AnyChild
  <2>5. CASE c = Parent /\ (CoAwaitNotify \/ TakeResult)
    <3>1. /\ UNCHANGED <<outcome, cancelled, waking>> /\ point[c] \in {"spawn", "resume"}
          /\ point' = [point EXCEPT ![c] = point'[c]]
          /\ point'[c] \in {"ready", "cancel", "final"}
      BY <1>0, <2>5 DEF CoAwaitNotify, AllSpawned, TakeResult, Goto, sharedVars
    <3> QED BY <1>0, <2>0, <2>5, <3>1, OneMoves DEF WakingInv, AnyParent
  <2>6. CASE c = Parent /\ CancelLosers
    <3>1. /\ UNCHANGED outcome /\ cancelled' = TRUE /\ point[c] = "cancel"
          /\ point' = [point EXCEPT ![c] = point'[c]] /\ point'[c] = "cancelling"
          /\ \A d \in Coros : d # c => waking'[d] = waking[d]
      BY <1>0, <2>6 DEF CancelLosers, RequestCancellation, Goto
    <3>2. \A d \in Coros : waking'[d] # <<>> =>
             \/ waking[d] # <<>> /\ d # c
             \/ point'[d] \in {"waking", "cancelling"}
      BY <3>1
    <3> QED BY <1>0, <2>0, <2>6, <3>1, <3>2, OneMoves DEF AnyParent
  <2> QED BY <1>5, <2>1, <2>2, <2>3, <2>4, <2>5, <2>6 DEF AnyActs
<1>6. ASSUME NEW c \in Coros, AllActs(c) PROVE Goal
  <2>0. combinator = "all" /\ UNCHANGED combinator
    BY <1>6 DEF AllActs
  <2>1. CASE c \in Children /\ CompleteTask(c)
    <3>1. PICK k \in (IF cancelled THEN Kinds ELSE {"value", "exception"}) :
                 outcome' = [outcome EXCEPT ![c] = k]
      BY <2>1 DEF CompleteTask, Complete
    <3>2. /\ point[c] = "resume"
          /\ outcome'[c] = k
          /\ point' = [point EXCEPT ![c] = IF k = "value" THEN "arrive" ELSE "failed"]
          /\ UNCHANGED <<cancelled, waking>>
          /\ outcome \in [Children -> Kinds \cup {None}]
          /\ k # None /\ (k = "cancelled" => cancelled)
      BY <1>0, <2>1, <3>1, NamesDiffer DEF CompleteTask, Complete, Goto, TypeOK, Kinds
    <3>3. PointsInv'
      BY <1>0, <2>0, <2>1, <3>2 DEF PointsInv, AllChild
    <3>4. OutcomeInv'
      BY <1>0, <2>1, <3>1, <3>2 DEF OutcomeInv, Before
    <3>5. WakingInv'
      BY <1>0, <2>1, <3>2 DEF WakingInv
    <3> QED BY <3>3, <3>4, <3>5
  <2>2. CASE c \in Children /\ FailedChild(c)
    <3>1. /\ UNCHANGED outcome /\ point[c] = "failed" /\ (cancelled => cancelled')
          /\ point' = [point EXCEPT ![c] = point'[c]] /\ point'[c] = "cancelling"
          /\ \A d \in Coros : d # c => waking'[d] = waking[d]
      BY <1>0, <2>2 DEF FailedChild, RequestCancellation, Goto
    <3>2. \A d \in Coros : waking'[d] # <<>> =>
             \/ waking[d] # <<>> /\ d # c
             \/ point'[d] \in {"waking", "cancelling"}
      BY <3>1
    <3> QED BY <1>0, <2>0, <2>2, <3>1, <3>2, OneMoves DEF Before, AllChild
  <2>3. CASE c \in Children /\ point[c] = "arrive" /\ FinalSuspend(c)
    <3>0. UNCHANGED <<outcome, cancelled, waking>>
      BY <2>3 DEF FinalSuspend, sharedVars
    <3>1. CASE Goto(c, "done")
      <4>1. point' = [point EXCEPT ![c] = point'[c]] /\ point'[c] = "done"
        BY <1>0, <3>1 DEF Goto
      <4> QED BY <1>0, <2>0, <2>3, <3>0, <4>1, OneMoves DEF WakingInv, Before, AllChild
    <3>2. CASE point' = [point EXCEPT ![c] = "leaving", ![Parent] = "resume"]
      <4>1. /\ point'[c] = "leaving" /\ point'[Parent] = "resume"
            /\ \A d \in Coros : d # c /\ d # Parent => point'[d] = point[d]
        BY <1>0, <2>3, <3>2
      <4>2. PointsInv'
        BY <1>0, <2>0, <4>1 DEF PointsInv, AllChild, AllParent
      <4>3. OutcomeInv'
        BY <1>0, <2>3, <3>0, <4>1 DEF OutcomeInv, Before
      <4>4. point[Parent] \notin {"waking", "cancelling"}
        BY <1>0, <2>0 DEF PointsInv, AllParent
      <4>5. WakingInv'
        BY <1>0, <2>3, <3>0, <4>1, <4>4 DEF WakingInv
      <4> QED BY <4>2, <4>3, <4>5
    <3> QED BY <2>3, <3>1, <3>2 DEF FinalSuspend, Arrive, Leave
  <2>4. CASE c = Parent /\ (TryAwait \/ TakeAll)
    <3>1. /\ UNCHANGED <<outcome, cancelled, waking>> /\ point[c] \in {"spawn", "resume"}
          /\ point' = [point EXCEPT ![c] = point'[c]]
          /\ point'[c] \in {"latched", "resume", "final"}
      BY <1>0, <2>4 DEF TryAwait, AllSpawned, TakeAll, Goto, Leave, sharedVars
    <3> QED BY <1>0, <2>0, <2>4, <3>1, OneMoves DEF WakingInv, AllParent
  <2> QED BY <1>6, <2>1, <2>2, <2>3, <2>4 DEF AllActs
<1>7. CASE Surroundings
  <2>0. UNCHANGED combinator
    BY <1>7 DEF Surroundings, restVars
  <2>1. ASSUME NEW c \in Children, Spawn(c) PROVE Goal
    <3>1. /\ UNCHANGED <<outcome, cancelled, waking>> /\ point[c] = "unspawned"
          /\ point' = [point EXCEPT ![c] = point'[c]] /\ point'[c] = "ready"
      BY <1>0, <2>1 DEF Spawn, Goto, sharedVars
    <3> QED BY <1>0, <2>0, <3>1, OneMoves DEF WakingInv, Before, AnyChild, AllChild
  <2>2. CASE SyncStart \/ SyncSet
    <3>1. /\ UNCHANGED <<outcome, cancelled, waking>>
          /\ point[Parent] \in {"unspawned", "final"}
          /\ point' = [point EXCEPT ![Parent] = point'[Parent]]
          /\ point'[Parent] \in {"spawn", "done"}
      BY <1>0, <2>2 DEF SyncStart, SyncSet, Leave, Goto, CombinatorInductive, SyncInv
    <3> QED BY <1>0, <2>0, <3>1, OneMoves DEF WakingInv, AnyParent, AllParent
  <2>3. CASE SyncWait \/ SpuriousWakeup
    <3>1. UNCHANGED <<outcome, cancelled, waking, point>>
      BY <2>3 DEF SyncWait, SpuriousWakeup, eventVars
    <3> QED BY <1>0, <2>0, <3>1 DEF PointsInv, OutcomeInv, WakingInv
  <2>4. ASSUME NEW t \in Threads, SetGate(t) PROVE Goal
    <3>1. /\ UNCHANGED <<outcome, cancelled, point>>
          /\ \A d \in Coros : waking'[d] = waking[d]
      BY <1>0, <2>4, NamesDiffer DEF SetGate, SetEvent, sharedVars
    <3> QED BY <1>0, <2>0, <3>1 DEF PointsInv, OutcomeInv, WakingInv
  <2> QED BY <1>7, <2>1, <2>2, <2>3, <2>4 DEF Surroundings
<1> QED BY <1>1, <1>2, <1>3, <1>4, <1>5, <1>6, <1>7, StepKinds

-----------------------------------------------------------------------------
(* A coroutine that suspends is put in one list, a list that is taken is   *)
(* in the hands of one caller, and a coroutine that is resumed leaves it.  *)
LEMMA ListsKept ==
  ASSUME CombinatorInductive, TypeOK', Next
  PROVE  SuspendedIffListedOnce' /\ NobodyWaitsOnSetEvent'
<1> DEFINE Goal == SuspendedIffListedOnce' /\ NobodyWaitsOnSetEvent'
<1>0. /\ TypeOK /\ SuspendedIffListedOnce /\ NobodyWaitsOnSetEvent
      /\ Coros \subseteq Callers
      /\ state \in [Events -> EventType] /\ waking \in [Callers -> Seq(Coros)]
      /\ onToken \in Seq(Coros) /\ point \in [Coros -> Points]
  BY NamesDiffer DEF CombinatorInductive, TypeOK, EventType
<1>1. CASE ListsAlone /\ (cancelled' => cancelled)
  <2>1. \A l \in Lists : Listed(l)' = Listed(l)
    BY <1>1, ListNames DEF ListsAlone
  <2>2. SuspendedIffListedOnce'
    BY <1>0, <1>1, <2>1, ListsStay DEF ListsAlone
  <2> QED BY <1>0, <1>1, <2>2 DEF NobodyWaitsOnSetEvent, ListsAlone
<1>2. ASSUME NEW c \in Coros, NEW e \in Events, EntersEvent(c, e) PROVE Goal
  <2> DEFINE q == <<c>> \o state[e].waiters
             l == <<"event", e>>
  <2>1. /\ state' = [state EXCEPT ![e].waiters = q] /\ Goto(c, "suspended")
        /\ UNCHANGED <<waking, onToken, cancelled>> /\ ~state[e].set /\ c \notin Suspended
    BY <1>2 DEF EntersEvent, Suspended
  <2>2. /\ state[e].waiters \in Seq(Coros) /\ IsInjective(state[e].waiters)
        /\ c \notin ToSet(state[e].waiters)
    <3>1. l \in Lists /\ Listed(l) = state[e].waiters
      BY ListNames
    <3>2. IsInjective(state[e].waiters) /\ ToSet(state[e].waiters) \subseteq Suspended
      BY <1>0, <3>1, WhoIsListed DEF SuspendedIffListedOnce
    <3> QED BY <1>0, <2>1, <3>2 DEF EventType
  <2>3. /\ q \in Seq(Coros) /\ ToSet(q) = ToSet(state[e].waiters) \cup {c} /\ IsInjective(q)
    BY <2>2, ToSetPrepend
  <2> HIDE DEF q
  <2>4. /\ state'[e].waiters = q /\ state'[e].set = state[e].set
        /\ \A d \in Events \ {e} : state'[d] = state[d]
    BY <1>0, <2>1, <2>3 DEF EventType
  <2>5. l \in Lists /\ Listed(l) = state[e].waiters /\ Listed(l)' = q
    BY <2>4, ListNames
  <2>6. \A m \in Lists \ {l} : Listed(m)' = Listed(m)
    BY <2>1, <2>4, ListNames
  <2>7. Suspended' = Suspended \cup {c}
    BY <1>0, <2>1 DEF Suspended, Goto
  <2> HIDE DEF l
  <2>8. SuspendedIffListedOnce'
    BY <1>0, <2>1, <2>3, <2>5, <2>6, <2>7, ListGrows
  <2>9. NobodyWaitsOnSetEvent'
    BY <1>0, <2>1, <2>4 DEF NobodyWaitsOnSetEvent
  <2> QED BY <2>8, <2>9
<1>3. ASSUME NEW c \in Coros, EntersToken(c) PROVE Goal
  <2> DEFINE l == <<"token", Token>>
  <2>1. /\ onToken' = Append(onToken, c) /\ Goto(c, "suspended") /\ ~cancelled
        /\ UNCHANGED <<state, waking, cancelled>> /\ c \notin Suspended
    BY <1>3 DEF EntersToken, Suspended
  <2>2. l \in Lists /\ Listed(l) = onToken /\ Listed(l)' = onToken'
    BY ListNames
  <2>3. IsInjective(onToken) /\ c \notin ToSet(onToken)
    BY <1>0, <2>1, <2>2, WhoIsListed DEF SuspendedIffListedOnce, Suspended
  <2>4. ToSet(onToken') = ToSet(onToken) \cup {c} /\ IsInjective(onToken')
    BY <1>0, <2>1, <2>3, ToSetAppend, InjectiveAppend
  <2>5. \A m \in Lists \ {l} : Listed(m)' = Listed(m)
    BY <2>1, ListNames
  <2>6. Suspended' = Suspended \cup {c}
    BY <1>0, <2>1 DEF Suspended, Goto
  <2> HIDE DEF l
  <2>7. SuspendedIffListedOnce'
    BY <1>0, <2>1, <2>2, <2>4, <2>5, <2>6, ListGrows
  <2> QED BY <1>0, <2>1, <2>7 DEF NobodyWaitsOnSetEvent
<1>4. ASSUME NEW x \in Callers, NEW e \in Events, TakesEvent(x, e) PROVE Goal
  <2> DEFINE l == <<"event", e>>
             k == <<"caller", x>>
  <2>1. /\ waking[x] = <<>> /\ Suspended' = Suspended /\ UNCHANGED <<onToken, cancelled>>
        /\ state'[e].waiters = <<>>
        /\ \A d \in Events \ {e} : state'[d] = state[d]
        /\ waking'[x] = state[e].waiters
        /\ \A y \in Callers \ {x} : waking'[y] = waking[y]
    BY <1>0, <1>4 DEF TakesEvent
  <2>2. /\ l \in Lists /\ k \in Lists /\ k # l
        /\ Listed(k) = <<>> /\ Listed(k)' = Listed(l) /\ Listed(l)' = <<>>
    BY <2>1, ListNames
  <2>3. \A m \in Lists \ {k, l} : Listed(m)' = Listed(m)
    BY <2>1, ListNames
  <2> HIDE DEF l, k
  <2>4. SuspendedIffListedOnce'
    BY <1>0, <2>1, <2>2, <2>3, ListMoves
  <2> QED BY <1>0, <2>1, <2>4 DEF NobodyWaitsOnSetEvent
<1>5. ASSUME NEW x \in Callers, TakesToken(x) PROVE Goal
  <2> DEFINE l == <<"token", Token>>
             k == <<"caller", x>>
  <2>1. /\ waking[x] = <<>> /\ Suspended' = Suspended /\ UNCHANGED state
        /\ onToken' = <<>> /\ waking'[x] = onToken
        /\ \A y \in Callers \ {x} : waking'[y] = waking[y]
    BY <1>0, <1>5 DEF TakesToken, RequestCancellation
  <2>2. /\ l \in Lists /\ k \in Lists /\ k # l
        /\ Listed(k) = <<>> /\ Listed(k)' = Listed(l) /\ Listed(l)' = <<>>
    BY <2>1, ListNames
  <2>3. \A m \in Lists \ {k, l} : Listed(m)' = Listed(m)
    BY <2>1, ListNames
  <2> HIDE DEF l, k
  <2>4. SuspendedIffListedOnce'
    BY <1>0, <2>1, <2>2, <2>3, ListMoves
  <2> QED BY <1>0, <2>1, <2>4 DEF NobodyWaitsOnSetEvent
<1>6. ASSUME NEW x \in Callers, Wakes(x) PROVE Goal
  <2> DEFINE k == <<"caller", x>>
             c == Head(waking[x])
  <2>1. /\ waking[x] # <<>> /\ waking[x] \in Seq(Coros) /\ Goto(c, "resume")
        /\ waking' = [waking EXCEPT ![x] = Tail(waking[x])]
        /\ UNCHANGED <<state, onToken, cancelled>>
        /\ \A y \in Callers \ {x} : waking'[y] = waking[y]
    BY <1>0, <1>6 DEF Wakes, Wake, ResumeNext, sharedVars
  <2>2. /\ k \in Lists /\ Listed(k) = waking[x] /\ Listed(k)' = Tail(waking[x])
    <3>1. waking'[x] = Tail(waking[x])
      BY <1>0, <2>1
    <3> QED BY <3>1, ListNames
  <2>3. IsInjective(waking[x])
    BY <1>0, <2>2 DEF SuspendedIffListedOnce
  <2>4. /\ c \in Coros /\ ToSet(waking[x]) = ToSet(Tail(waking[x])) \cup {c}
        /\ IsInjective(Tail(waking[x])) /\ c \notin ToSet(Tail(waking[x]))
    BY <2>1, <2>3, ToSetTail, InjectiveTail
  <2> HIDE DEF c
  <2>5. \A m \in Lists \ {k} : Listed(m)' = Listed(m)
    BY <2>1, ListNames
  <2>6. Suspended' = Suspended \ {c}
    BY <1>0, <2>1, <2>4 DEF Suspended, Goto
  <2> HIDE DEF k
  <2>7. SuspendedIffListedOnce'
    BY <1>0, <2>2, <2>4, <2>5, <2>6, ListShrinks
  <2> QED BY <1>0, <2>1, <2>7 DEF NobodyWaitsOnSetEvent
<1> QED BY <1>1, <1>2, <1>3, <1>4, <1>5, <1>6, ListEffects

-----------------------------------------------------------------------------
(* A step that is not about the end of the parent or the source.           *)
LEMMA SyncFrame ==
  ASSUME SyncInv, CancelledInv,
         UNCHANGED <<main, isSet, taken, hasSource, cancelled, combinator>>,
         \/ point'[Parent] = point[Parent]
         \/ /\ point[Parent] \notin {"unspawned", "done"}
            /\ point'[Parent] # "cancel"
            /\ point'[Parent] \in AfterTaken => point[Parent] \in AfterTaken,
         result # NoResult => result' # NoResult,
         \A c \in Children : outcome[c] = "exception" => outcome'[c] = "exception"
  PROVE  SyncInv' /\ CancelledInv'
<1>1. SyncInv'
  BY DEF SyncInv, AfterTaken
<1>2. CancelledInv'
  BY DEF CancelledInv
<1> QED BY <1>1, <1>2

(* A result is not the absence of one.                                     *)
LEMMA ResultIsOne ==
  ASSUME NEW c \in Children, NEW k
  PROVE  [by |-> c, kind |-> k] # NoResult /\ [by |-> c, kind |-> k].by = c
<1>1. c # None
  BY NamesDiffer
<1>2. [by |-> c, kind |-> k].by = c /\ NoResult.by = None
  BY DEF NoResult
<1> QED BY <1>1, <1>2

(* sync_wait() waits for a parent with a result, and whoever cancels the   *)
(* source has a reason to.                                                 *)
LEMMA SyncKept ==
  ASSUME CombinatorInductive, Next
  PROVE  SyncInv' /\ CancelledInv'
<1> DEFINE Goal == SyncInv' /\ CancelledInv'
<1>0. /\ TypeOK /\ PointsInv /\ OutcomeInv /\ WakingInv /\ SyncInv /\ CancelledInv
      /\ NotifyInv /\ ClaimInv
      /\ Children \subseteq Coros /\ Parent \in Coros /\ Parent \notin Children
      /\ combinator = "any" \/ combinator = "all"
      /\ point \in [Coros -> Points] /\ waking \in [Callers -> Seq(Coros)]
      /\ outcome \in [Children -> Kinds \cup {None}]
  BY NamesDiffer DEF CombinatorInductive, TypeOK
<1>1. ASSUME NEW c \in Coros, NEW e \in Events, Awaits(c, e) PROVE Goal
  <2>1. UNCHANGED <<main, isSet, taken, hasSource, cancelled, combinator, result, outcome>>
    BY <1>1 DEF Awaits, sharedVars, restVars, anyVars
  <2>2. /\ \A d \in Coros : d # c => point'[d] = point[d]
        /\ point'[c] \in {"load", "push", "resume", "suspended"}
        /\ point[c] \in {"ready", "load", "push"}
    BY <1>0, <1>1 DEF Awaits, AwaiterStep, AwaitReady, LoadState, Push, PushAgain,
         DoNotSuspend, Goto
  <2> QED BY <1>0, <2>1, <2>2, SyncFrame DEF AfterTaken
<1>2. ASSUME NEW c \in Children, AwaitsToken(c) PROVE Goal
  <2>1. UNCHANGED <<main, isSet, taken, hasSource, cancelled, combinator, result, outcome>>
    BY <1>2 DEF AwaitsToken, AwaitToken, RegisterOnToken, sharedVars, restVars, anyVars
  <2>2. point'[Parent] = point[Parent]
    BY <1>0, <1>2 DEF AwaitsToken, AwaitToken, RegisterOnToken, Leave, Goto
  <2> QED BY <1>0, <2>1, <2>2, SyncFrame
<1>3. ASSUME NEW x \in Callers, Wakes(x) PROVE Goal
  <2>1. /\ UNCHANGED <<main, isSet, taken, hasSource, cancelled, combinator, result, outcome>>
        /\ waking[x] # <<>> /\ Goto(Head(waking[x]), "resume")
    BY <1>3 DEF Wakes, Wake, ResumeNext, sharedVars, restVars, anyVars
  <2>2. Head(waking[x]) \in Coros /\ Head(waking[x]) \in ToSet(waking[x])
    BY <1>0, <2>1, ToSetTail DEF TypeOK
  <2>3. point[Head(waking[x])] = "suspended"
    BY <1>0, <2>2, WhoIsListed DEF CombinatorInductive
  <2>4. \/ point'[Parent] = point[Parent]
        \/ point[Parent] = "suspended" /\ point'[Parent] = "resume"
    BY <1>0, <2>1, <2>2, <2>3 DEF Goto
  <2> QED BY <1>0, <2>1, <2>4, SyncFrame DEF AfterTaken
<1>4. ASSUME NEW c \in Coros, Quits(c) PROVE Goal
  <2>1. UNCHANGED <<main, isSet, taken, hasSource, cancelled, combinator, result, outcome>>
    BY <1>4 DEF Quits, sharedVars, restVars, anyVars
  <2>2. \/ point'[Parent] = point[Parent]
        \/ point[Parent] = "cancelling" /\ point'[Parent] = "final"
    BY <1>0, <1>4 DEF Quits, Goto
  <2> QED BY <1>0, <2>1, <2>2, SyncFrame DEF AfterTaken
<1>5. ASSUME NEW c \in Coros, AnyActs(c) PROVE Goal
  <2>0. combinator = "any" /\ UNCHANGED combinator
    BY <1>5 DEF AnyActs
  <2>1. CASE c \in Children /\ (CompleteChild(c) \/ Claim(c) \/ PublishStep(c) \/ SetNotify(c))
    <3>1. /\ UNCHANGED <<main, isSet, taken, hasSource, cancelled>>
          /\ point'[Parent] = point[Parent]
      BY <1>0, <2>1 DEF CompleteChild, Complete, Claim, TryClaimFirst, PublishStep, Publish,
           SetNotify, Leave, Goto, sharedVars
    <3>2. result # NoResult => result' # NoResult
      BY <1>0, <2>1, ResultIsOne DEF CompleteChild, Claim, PublishStep, Publish,
           SetNotify, anyVars
    <3>3. \A d \in Children : outcome[d] = "exception" => outcome'[d] = "exception"
      <4>1. CASE UNCHANGED outcome
        BY <4>1
      <4>2. CASE point[c] = "resume" /\ \E k \in Kinds : outcome' = [outcome EXCEPT ![c] = k]
        <5>1. outcome[c] = None
          BY <1>0, <2>1, <4>2 DEF OutcomeInv, Before
        <5> QED BY <1>0, <4>2, <5>1, NamesDiffer
      <4>3. CASE outcome' = [outcome EXCEPT ![c] = "exception"]
        BY <1>0, <4>3
      <4> QED BY <2>1, <4>1, <4>2, <4>3 DEF CompleteChild, Complete, Claim, PublishStep,
                 Publish, SetNotify, sharedVars, Kinds
    <3> QED BY <1>0, <2>0, <3>1, <3>2, <3>3, SyncFrame
  <2>2. CASE c = Parent /\ CoAwaitNotify
    <3>1. /\ UNCHANGED <<main, isSet, taken, hasSource, cancelled, result, outcome>>
          /\ point[Parent] = "spawn" /\ point'[Parent] = "ready"
      BY <1>0, <2>2 DEF CoAwaitNotify, AllSpawned, Goto, sharedVars, anyVars
    <3> QED BY <1>0, <2>0, <3>1, SyncFrame DEF AfterTaken
  <2>3. CASE c = Parent /\ TakeResult
    <3>1. /\ UNCHANGED <<main, isSet, hasSource, cancelled, result, outcome>>
          /\ point[Parent] = "resume" /\ taken' = result
          /\ point'[Parent] = IF hasSource THEN "cancel" ELSE "final"
      BY <1>0, <2>3 DEF TakeResult, Goto, anyVars
    <3>2. result # NoResult
      BY <1>0, <2>0, <3>1 DEF NotifyInv, ClaimInv
    <3>3. SyncInv'
      BY <1>0, <3>1, <3>2 DEF SyncInv
    <3>4. CancelledInv'
      BY <1>0, <2>0, <3>1 DEF CancelledInv
    <3> QED BY <3>3, <3>4
  <2>4. CASE c = Parent /\ CancelLosers
    <3>1. /\ UNCHANGED <<main, isSet, hasSource, taken, result, outcome>>
          /\ point[Parent] = "cancel" /\ point'[Parent] = "cancelling" /\ cancelled'
      BY <1>0, <2>4 DEF CancelLosers, RequestCancellation, Goto, anyVars
    <3>2. result # NoResult /\ hasSource
      BY <1>0, <2>0, <3>1 DEF NotifyInv, ClaimInv, CancelledInv, AfterTaken
    <3>3. SyncInv'
      BY <1>0, <3>1 DEF SyncInv, AfterTaken
    <3>4. CancelledInv'
      BY <1>0, <2>0, <3>1, <3>2 DEF CancelledInv
    <3> QED BY <3>3, <3>4
  <2> QED BY <1>5, <2>1, <2>2, <2>3, <2>4 DEF AnyActs
<1>6. ASSUME NEW c \in Coros, AllActs(c) PROVE Goal
  <2>0. combinator = "all" /\ UNCHANGED <<combinator, result>>
    BY <1>6 DEF AllActs, anyVars
  <2>1. CASE c \in Children /\ CompleteTask(c)
    <3>1. /\ UNCHANGED <<main, isSet, taken, hasSource, cancelled>>
          /\ point'[Parent] = point[Parent] /\ point[c] = "resume"
      BY <1>0, <2>1 DEF CompleteTask, Complete, Goto
    <3>2. PICK k : outcome' = [outcome EXCEPT ![c] = k]
      BY <2>1 DEF CompleteTask, Complete
    <3>3. outcome[c] = None
      BY <1>0, <2>1, <3>1 DEF OutcomeInv, Before
    <3>4. \A d \in Children : outcome[d] = "exception" => outcome'[d] = "exception"
      BY <1>0, <3>2, <3>3, NamesDiffer
    <3> QED BY <1>0, <2>0, <3>1, <3>4, SyncFrame
  <2>2. CASE c \in Children /\ FailedChild(c)
    <3>1. /\ UNCHANGED <<main, isSet, taken, hasSource, outcome>>
          /\ point'[Parent] = point[Parent] /\ point[c] = "failed"
          /\ (hasSource /\ cancelled') \/ (~hasSource /\ UNCHANGED cancelled)
      BY <1>0, <2>2 DEF FailedChild, RequestCancellation, Goto
    <3>2. SyncInv'
      BY <1>0, <3>1 DEF SyncInv
    <3>3. outcome[c] = "exception" \/ cancelled
      BY <1>0, <2>2, <3>1 DEF OutcomeInv, Before, Kinds
    <3>4. CancelledInv'
      BY <1>0, <2>0, <2>2, <3>1, <3>3 DEF CancelledInv
    <3> QED BY <3>2, <3>4
  <2>3. CASE c \in Children /\ point[c] = "arrive" /\ FinalSuspend(c)
    <3>1. UNCHANGED <<main, isSet, taken, hasSource, cancelled, outcome>>
      BY <2>3 DEF FinalSuspend, sharedVars
    <3>2. CASE Goto(c, "done")
      <4>1. point'[Parent] = point[Parent]
        BY <1>0, <2>3, <3>2 DEF Goto
      <4> QED BY <1>0, <2>0, <3>1, <4>1, SyncFrame
    <3>3. CASE /\ point' = [point EXCEPT ![c] = "leaving", ![Parent] = "resume"]
               /\ count = 1
      <4>1. point'[Parent] = "resume" /\ c \in NotArrived
        BY <1>0, <2>3, <3>3 DEF NotArrived
      <4>2. Cardinality(NotArrived) # 0
        BY <4>1, NotArrivedFinite, FS_EmptySet
      <4>3. point[Parent] \notin {"unspawned", "spawn"}
        <5>1. LatchCounts
          BY <2>0 DEF CombinatorInductive, AllJoined
        <5> QED BY <3>3, <4>2, <5>1, NotArrivedFinite DEF LatchCounts
      <4>4. point[Parent] # "done"
        BY <2>0, <4>1 DEF CombinatorInductive, AllJoined, ParentAfterChildren
      <4> QED BY <1>0, <2>0, <3>1, <4>1, <4>3, <4>4, SyncFrame DEF AfterTaken
    <3> QED BY <2>3, <3>2, <3>3 DEF FinalSuspend, Arrive, Leave
  <2>4. CASE c = Parent /\ TryAwait
    <3>1. /\ UNCHANGED <<main, isSet, taken, hasSource, cancelled, outcome>>
          /\ point[Parent] = "spawn" /\ point'[Parent] \in {"latched", "resume"}
      BY <1>0, <2>4 DEF TryAwait, AllSpawned, Leave, Goto, sharedVars
    <3> QED BY <1>0, <2>0, <3>1, SyncFrame DEF AfterTaken
  <2>5. CASE c = Parent /\ TakeAll
    <3>1. /\ UNCHANGED <<main, isSet, hasSource, cancelled, outcome>>
          /\ point[Parent] = "resume" /\ point'[Parent] = "final" /\ taken' = FirstFailure
      BY <1>0, <2>5 DEF TakeAll, Goto
    <3>2. FirstFailure # NoResult
      <4>1. FirstFailure.kind = "value" => FirstFailure.kind # None
        BY NamesDiffer
      <4>2. FirstFailure.kind # "value" => FirstFailure.by # None
        BY FirstFailureIs, NamesDiffer
      <4> QED BY <4>1, <4>2 DEF NoResult
    <3>3. SyncInv'
      BY <1>0, <3>1, <3>2 DEF SyncInv
    <3>4. CancelledInv'
      BY <1>0, <2>0, <3>1 DEF CancelledInv
    <3> QED BY <3>3, <3>4
  <2> QED BY <1>6, <2>1, <2>2, <2>3, <2>4, <2>5 DEF AllActs
<1>7. CASE Surroundings
  <2>0. UNCHANGED <<combinator, result>>
    BY <1>7 DEF Surroundings, restVars, anyVars
  <2>1. ASSUME NEW c \in Children, Spawn(c) PROVE Goal
    <3>1. /\ UNCHANGED <<main, isSet, taken, hasSource, cancelled, outcome>>
          /\ point'[Parent] = point[Parent]
      BY <1>0, <2>1 DEF Spawn, Goto, sharedVars
    <3> QED BY <1>0, <2>0, <3>1, SyncFrame
  <2>2. CASE SyncStart
    <3>1. /\ UNCHANGED <<isSet, taken, hasSource, cancelled, outcome>> /\ main = "start"
          /\ point[Parent] = "unspawned" /\ point'[Parent] = "spawn" /\ main' = "wait"
      BY <1>0, <2>2 DEF SyncStart, SyncInv, Goto
    <3> QED BY <1>0, <2>0, <3>1 DEF SyncInv, CancelledInv, AfterTaken
  <2>3. CASE SyncWait \/ SpuriousWakeup
    <3>1. /\ UNCHANGED <<point, isSet, taken, hasSource, cancelled, outcome>>
          /\ \/ main' \in {"asleep", "wait"} /\ main # "start"
             \/ main' = "returned" /\ isSet
      BY <2>3 DEF SyncWait, SpuriousWakeup, eventVars
    <3>2. SyncInv'
      BY <1>0, <3>1 DEF SyncInv
    <3> QED BY <1>0, <2>0, <3>1, <3>2 DEF CancelledInv
  <2>4. CASE SyncSet
    <3>1. /\ UNCHANGED <<taken, hasSource, cancelled, outcome>>
          /\ point[Parent] = "final" /\ point'[Parent] = "done" /\ isSet' = TRUE
          /\ main' = IF main = "asleep" THEN "wait" ELSE main
      BY <1>0, <2>4 DEF SyncSet, Leave, Goto
    <3>2. SyncInv'
      BY <1>0, <3>1 DEF SyncInv, AfterTaken
    <3>3. CancelledInv'
      BY <1>0, <2>0, <3>1 DEF CancelledInv
    <3> QED BY <3>2, <3>3
  <2>5. ASSUME NEW t \in Threads, SetGate(t) PROVE Goal
    <3>1. UNCHANGED <<main, isSet, taken, hasSource, cancelled, outcome, point>>
      BY <2>5 DEF SetGate, sharedVars
    <3> QED BY <1>0, <2>0, <3>1, SyncFrame
  <2> QED BY <1>7, <2>1, <2>2, <2>3, <2>4, <2>5 DEF Surroundings
<1> QED BY <1>1, <1>2, <1>3, <1>4, <1>5, <1>6, <1>7, StepKinds

-----------------------------------------------------------------------------
(* A step that puts the parent of a when_any in no list, and takes it out  *)
(* of the list of its event only after the event was set.                  *)
LEMMA NotifyFrame ==
  ASSUME NotifyInv, UNCHANGED combinator,
         state[Notify].set => state'[Notify].set,
         \A e \in Events \ {Notify} : Parent \in ToSet(state'[e].waiters) =>
                                        Parent \in ToSet(state[e].waiters),
         Parent \in ToSet(onToken') => Parent \in ToSet(onToken),
         \A x \in Callers : Parent \in ToSet(waking'[x]) =>
                              Parent \in ToSet(waking[x]) \/ state'[Notify].set,
         seen'[Parent].set => seen[Parent].set \/ state'[Notify].set,
         point'[Parent] \in {"resume"} \cup AfterTaken =>
           point[Parent] \in {"resume"} \cup AfterTaken \/ state'[Notify].set
  PROVE  NotifyInv'
  BY DEF NotifyInv

(* The parent of a when_any is resumed by the notify event, and only then. *)
LEMMA NotifyKept ==
  ASSUME CombinatorInductive, Next
  PROVE  NotifyInv'
<1> SUFFICES ASSUME combinator = "any" PROVE NotifyInv'
  <2>1. combinator # "any" => UNCHANGED combinator
    BY StepKinds DEF Awaits, AwaitsToken, Wakes, Quits, AnyActs, AllActs, Surroundings, restVars
  <2> QED BY <2>1 DEF NotifyInv
<1>0. /\ TypeOK /\ PointsInv /\ NotifyInv /\ SyncInv
      /\ Children \subseteq Coros /\ Parent \in Coros /\ Parent \notin Children
      /\ Coros \subseteq Callers /\ Notify \in Events
      /\ point \in [Coros -> Points] /\ waking \in [Callers -> Seq(Coros)]
      /\ state \in [Events -> EventType] /\ seen \in [Coros -> EventType]
      /\ onToken \in Seq(Coros)
  BY NamesDiffer DEF CombinatorInductive, TypeOK, EventType
<1>1. ASSUME NEW c \in Coros, NEW e \in Events, Awaits(c, e) PROVE NotifyInv'
  <2>0. /\ UNCHANGED <<combinator, waking, onToken>> /\ AwaiterStep(c, e)
        /\ \/ c = Parent /\ e = Notify
           \/ c \in Children /\ e # Notify
    BY <1>0, <1>1, AwaitsTypes DEF Awaits, sharedVars, restVars
  <2>1. CASE Push(c, e) /\ point[c] = "push"
    <3> DEFINE q == <<c>> \o state[e].waiters
    <3>1. /\ state' = [state EXCEPT ![e].waiters = q] /\ UNCHANGED seen
          /\ Goto(c, "suspended")
      BY <2>1 DEF Push
    <3>2. state[e].waiters \in Seq(Coros)
      BY <1>0 DEF EventType
    <3>3. ToSet(q) = ToSet(state[e].waiters) \cup {c}
      BY <3>2, ToSetPrepend
    <3> HIDE DEF q
    <3>4. /\ state'[e].waiters = q /\ state'[e].set = state[e].set
          /\ \A d \in Events \ {e} : state'[d] = state[d]
      BY <1>0, <3>1 DEF EventType
    <3>5. point'[Parent] \in {"resume"} \cup AfterTaken => point'[Parent] = point[Parent]
      BY <1>0, <2>0, <3>1 DEF Goto, AfterTaken
    <3> QED BY <1>0, <2>0, <3>1, <3>3, <3>4, <3>5, NotifyFrame
  <2>2. CASE AwaitReady(c, e) \/ LoadState(c, e) \/ PushAgain(c, e) \/ DoNotSuspend(c)
    <3>1. UNCHANGED state
      BY <2>2 DEF AwaitReady, LoadState, PushAgain, DoNotSuspend
    <3>2. seen'[Parent].set => seen[Parent].set \/ state[Notify].set
      BY <1>0, <2>0, <2>2 DEF AwaitReady, LoadState, PushAgain, DoNotSuspend
    <3>3. point'[Parent] \in {"resume"} \cup AfterTaken =>
            \/ point[Parent] \in {"resume"} \cup AfterTaken
            \/ state[Notify].set \/ seen[Parent].set
      BY <1>0, <2>0, <2>2
         DEF AwaitReady, LoadState, PushAgain, DoNotSuspend, Goto, AfterTaken
    <3>4. seen[Parent].set => state[Notify].set
      BY <1>0 DEF NotifyInv
    <3> QED BY <1>0, <2>0, <3>1, <3>2, <3>3, <3>4, NotifyFrame
  <2> QED BY <2>0, <2>1, <2>2 DEF AwaiterStep
<1>2. ASSUME NEW c \in Children, AwaitsToken(c) PROVE NotifyInv'
  <2>1. /\ UNCHANGED <<combinator, waking, state, seen>> /\ point'[Parent] = point[Parent]
        /\ onToken' = onToken \/ onToken' = Append(onToken, c)
    BY <1>0, <1>2
       DEF AwaitsToken, AwaitToken, RegisterOnToken, Leave, Goto, sharedVars, restVars
  <2>2. ToSet(Append(onToken, c)) = ToSet(onToken) \cup {c}
    BY <1>0, ToSetAppend
  <2> QED BY <1>0, <2>1, <2>2, NotifyFrame
<1>3. ASSUME NEW x \in Callers, Wakes(x) PROVE NotifyInv'
  <2>1. /\ UNCHANGED <<combinator, state, seen, onToken>> /\ waking[x] # <<>>
        /\ waking' = [waking EXCEPT ![x] = Tail(waking[x])]
        /\ Goto(Head(waking[x]), "resume")
    BY <1>3 DEF Wakes, Wake, ResumeNext, sharedVars, restVars
  <2>2. ToSet(waking[x]) = ToSet(Tail(waking[x])) \cup {Head(waking[x])}
    BY <1>0, <2>1, ToSetTail
  <2>3. \A y \in Callers : ToSet(waking'[y]) \subseteq ToSet(waking[y])
    BY <1>0, <2>1, <2>2
  <2>4. point'[Parent] = point[Parent] \/ state[Notify].set
    BY <1>0, <2>1, <2>2 DEF NotifyInv, Goto
  <2> QED BY <1>0, <2>1, <2>3, <2>4, NotifyFrame
<1>4. ASSUME NEW c \in Coros, Quits(c) PROVE NotifyInv'
  <2>1. /\ UNCHANGED <<combinator, state, seen, onToken, waking>>
        /\ \/ point'[Parent] = point[Parent]
           \/ point[Parent] = "cancelling"
    BY <1>0, <1>4 DEF Quits, Goto, sharedVars, restVars
  <2> QED BY <1>0, <2>1, NotifyFrame DEF AfterTaken
<1>5. ASSUME NEW c \in Coros, AnyActs(c) PROVE NotifyInv'
  <2>0. UNCHANGED combinator
    BY <1>5 DEF AnyActs
  <2>1. CASE c \in Children /\ (CompleteChild(c) \/ Claim(c) \/ PublishStep(c))
    <3>1. /\ UNCHANGED <<state, seen, onToken, waking>> /\ point'[Parent] = point[Parent]
      BY <1>0, <2>1 DEF CompleteChild, Complete, Claim, TryClaimFirst, PublishStep, Publish,
           Leave, Goto, sharedVars
    <3> QED BY <1>0, <2>0, <3>1, NotifyFrame
  <2>2. CASE c \in Children /\ SetNotify(c)
    <3>1. c \in Callers /\ SetEvent(c, Notify) /\ UNCHANGED onToken
      BY <1>0, <2>2 DEF SetNotify, sharedVars
    <3>2. /\ state' = [state EXCEPT ![Notify] = [set |-> TRUE, waiters |-> <<>>]]
          /\ UNCHANGED seen
      BY <1>0, <3>1, SetEventTypes
    <3>3. state'[Notify].set /\ \A e \in Events \ {Notify} : state'[e] = state[e]
      BY <1>0, <3>2
    <3> QED BY <1>0, <2>0, <3>1, <3>2, <3>3, NotifyFrame
  <2>3. CASE c = Parent /\ (CoAwaitNotify \/ TakeResult)
    <3>1. /\ UNCHANGED <<state, seen, onToken, waking>>
          /\ point'[Parent] = "ready" \/ point[Parent] = "resume"
      BY <1>0, <2>3 DEF CoAwaitNotify, TakeResult, Goto, sharedVars
    <3> QED BY <1>0, <2>0, <3>1, NotifyFrame DEF AfterTaken
  <2>4. CASE c = Parent /\ CancelLosers
    <3>1. /\ UNCHANGED <<state, seen>> /\ point[Parent] = "cancel" /\ onToken' = <<>>
          /\ waking' = [waking EXCEPT ![Parent] = onToken]
      BY <2>4 DEF CancelLosers, RequestCancellation
    <3>2. \A x \in Callers : waking'[x] = waking[x] \/ waking'[x] = onToken
      BY <1>0, <3>1
    <3>3. Parent \notin ToSet(onToken)
      BY <1>0 DEF NotifyInv
    <3>4. \A x \in Callers : Parent \in ToSet(waking'[x]) => Parent \in ToSet(waking[x])
      BY <3>2, <3>3
    <3> QED BY <1>0, <2>0, <3>1, <3>4, ToSetEmpty, NotifyFrame DEF AfterTaken
  <2> QED BY <1>5, <2>1, <2>2, <2>3, <2>4 DEF AnyActs
<1>6. CASE Surroundings
  <2>0. UNCHANGED combinator
    BY <1>6 DEF Surroundings, restVars
  <2>1. CASE (\E c \in Children : Spawn(c)) \/ SyncStart \/ SyncWait \/ SpuriousWakeup
             \/ SyncSet
    <3>1. /\ UNCHANGED <<state, seen, onToken, waking>>
          /\ \/ point'[Parent] = point[Parent]
             \/ point'[Parent] = "spawn" \/ point[Parent] = "final"
      BY <1>0, <2>1 DEF Spawn, SyncStart, SyncWait, SpuriousWakeup, SyncSet, Leave, Goto,
           eventVars, sharedVars
    <3> QED BY <1>0, <2>0, <3>1, NotifyFrame DEF AfterTaken
  <2>2. ASSUME NEW t \in Threads, SetGate(t) PROVE NotifyInv'
    <3>1. PICK e \in Events \ {Notify} : SetEvent(t, e)
      BY <2>2 DEF SetGate
    <3>2. UNCHANGED <<onToken, point>> /\ t \in Callers
      BY <2>2, NamesDiffer DEF SetGate, sharedVars
    <3>3. /\ state' = [state EXCEPT ![e] = [set |-> TRUE, waiters |-> <<>>]]
          /\ waking' = [waking EXCEPT ![t] = state[e].waiters]
          /\ UNCHANGED seen
      BY <1>0, <3>1, <3>2, SetEventTypes
    <3>4. /\ state'[Notify] = state[Notify]
          /\ \A d \in Events : state'[d] = state[d] \/ state'[d].waiters = <<>>
      BY <1>0, <3>1, <3>3
    <3>5. Parent \notin ToSet(state[e].waiters)
      BY <1>0, <3>1 DEF NotifyInv
    <3>6. \A x \in Callers : Parent \in ToSet(waking'[x]) => Parent \in ToSet(waking[x])
      BY <1>0, <3>2, <3>3, <3>5
    <3> QED BY <1>0, <2>0, <3>2, <3>3, <3>4, <3>6, ToSetEmpty, NotifyFrame
  <2> QED BY <1>6, <2>1, <2>2 DEF Surroundings
<1>7. ASSUME NEW c \in Coros, AllActs(c) PROVE FALSE
  BY <1>7 DEF AllActs
<1> QED BY <1>1, <1>2, <1>3, <1>4, <1>5, <1>6, <1>7, StepKinds

-----------------------------------------------------------------------------
(* A step in which nobody claims, publishes or takes the result.           *)
LEMMA ClaimFrame ==
  ASSUME ClaimInv, UNCHANGED <<combinator, result, completed, taken>>,
         state'[Notify].set => state[Notify].set,
         \A c \in Children : point'[c] \in {"publish", "notify", "waking"} =>
                               point[c] = point'[c],
         point'[Parent] \in AfterTaken => point[Parent] \in AfterTaken
  PROVE  ClaimInv'
  BY DEF ClaimInv

(* One child claims, publishes and sets the event; the parent takes what   *)
(* it has published.                                                       *)
LEMMA ClaimKept ==
  ASSUME CombinatorInductive, Next
  PROVE  ClaimInv'
<1> SUFFICES ASSUME combinator = "any" PROVE ClaimInv'
  <2>1. combinator # "any" => UNCHANGED combinator
    BY StepKinds DEF Awaits, AwaitsToken, Wakes, Quits, AnyActs, AllActs, Surroundings, restVars
  <2> QED BY <2>1 DEF ClaimInv
<1>0. /\ TypeOK /\ PointsInv /\ NotifyInv /\ SyncInv /\ ClaimInv /\ OutcomeInv /\ CancelledInv
      /\ Children \subseteq Coros /\ Parent \in Coros /\ Parent \notin Children
      /\ Coros \subseteq Callers /\ Notify \in Events
      /\ point \in [Coros -> Points] /\ waking \in [Callers -> Seq(Coros)]
      /\ state \in [Events -> EventType]
      /\ completed \in BOOLEAN
  BY NamesDiffer DEF CombinatorInductive, TypeOK, EventType
<1>1. ASSUME NEW c \in Coros, NEW e \in Events, Awaits(c, e) PROVE ClaimInv'
  <2>0. /\ UNCHANGED <<combinator, result, completed, taken>> /\ AwaiterStep(c, e)
    BY <1>1 DEF Awaits, sharedVars, restVars, anyVars
  <2>1. state'[Notify].set = state[Notify].set
    BY <1>0, <2>0 DEF AwaiterStep, AwaitReady, LoadState, Push, PushAgain, DoNotSuspend,
         EventType
  <2>2. /\ \A d \in Coros : d # c => point'[d] = point[d]
        /\ point'[c] \in {"load", "push", "resume", "suspended"}
    BY <1>0, <2>0 DEF AwaiterStep, AwaitReady, LoadState, Push, PushAgain, DoNotSuspend, Goto
  <2> QED BY <1>0, <2>0, <2>1, <2>2, ClaimFrame DEF AfterTaken
<1>2. ASSUME NEW c \in Children, AwaitsToken(c) PROVE ClaimInv'
  <2>1. /\ UNCHANGED <<combinator, result, completed, taken, state>>
        /\ \A d \in Coros : d # c => point'[d] = point[d]
        /\ point'[c] \in {"register", "resume", "suspended"}
    BY <1>0, <1>2 DEF AwaitsToken, AwaitToken, RegisterOnToken, Leave, Goto,
         sharedVars, restVars, anyVars
  <2> QED BY <1>0, <2>1, ClaimFrame
<1>3. ASSUME NEW x \in Callers, Wakes(x) PROVE ClaimInv'
  <2>1. /\ UNCHANGED <<combinator, result, completed, taken, state>>
        /\ Goto(Head(waking[x]), "resume")
    BY <1>3 DEF Wakes, Wake, ResumeNext, sharedVars, restVars, anyVars
  <2>2. \A d \in Coros : point'[d] = point[d] \/ point'[d] = "resume"
    BY <1>0, <2>1 DEF Goto
  <2> QED BY <1>0, <2>1, <2>2, ClaimFrame DEF AfterTaken
<1>4. ASSUME NEW c \in Coros, Quits(c) PROVE ClaimInv'
  <2>1. /\ UNCHANGED <<combinator, result, completed, taken, state>>
        /\ \A d \in Coros : point'[d] = point[d] \/ point'[d] \in {"done", "final", "arrive"}
        /\ point'[Parent] = point[Parent] \/ point[Parent] = "cancelling"
    BY <1>0, <1>4 DEF Quits, Goto, sharedVars, restVars, anyVars
  <2> QED BY <1>0, <2>1, ClaimFrame DEF AfterTaken
<1>5. ASSUME NEW c \in Coros, AnyActs(c) PROVE ClaimInv'
  <2>0. UNCHANGED combinator
    BY <1>5 DEF AnyActs
  <2>1. CASE c \in Children /\ CompleteChild(c)
    <3>1. /\ UNCHANGED <<state, taken, result, completed>>
          /\ \A d \in Coros : point'[d] = point[d] \/ (d = c /\ point'[d] = "claim")
      BY <1>0, <2>1 DEF CompleteChild, Complete, Goto, anyVars
    <3> QED BY <1>0, <2>0, <2>1, <3>1, ClaimFrame
  <2>2. CASE c \in Children /\ Claim(c)
    <3>0. UNCHANGED <<state, taken, result>>
      BY <2>2 DEF Claim, sharedVars
    <3>1. CASE completed /\ Goto(c, "done") /\ completed' = TRUE
      <4>1. \A d \in Coros : point'[d] = point[d] \/ (d = c /\ point'[d] = "done")
        BY <1>0, <2>2, <3>1 DEF Goto
      <4>2. completed' = completed
        BY <1>0, <3>1
      <4> QED BY <1>0, <2>0, <2>2, <3>0, <4>1, <4>2, ClaimFrame
    <3>2. CASE ~completed /\ Goto(c, "publish") /\ completed' = TRUE
      <4>1. /\ point'[c] = "publish" /\ \A d \in Coros : d # c => point'[d] = point[d]
        BY <1>0, <2>2, <3>2 DEF Goto
      <4>2. /\ result = NoResult /\ ~state[Notify].set
            /\ \A d \in Children : point[d] \notin {"publish", "notify", "waking"}
        BY <1>0, <3>2 DEF ClaimInv
      <4>3. point'[Parent] \notin AfterTaken
        BY <1>0, <2>2, <4>1, <4>2 DEF NotifyInv
      <4> QED BY <1>0, <2>0, <2>2, <3>0, <3>2, <4>1, <4>2, <4>3 DEF ClaimInv
    <3> QED BY <2>2, <3>1, <3>2 DEF Claim, TryClaimFirst, Leave
  <2>3. CASE c \in Children /\ PublishStep(c)
    <3>0. UNCHANGED <<state, taken, completed, cancelled>> /\ point[c] = "publish"
      BY <2>3 DEF PublishStep
    <3>1. CASE UNCHANGED result /\ Goto(c, "claim")
      <4>1. \A d \in Coros : point'[d] = point[d] \/ (d = c /\ point'[d] = "claim")
        BY <1>0, <2>3, <3>1 DEF Goto
      <4> QED BY <1>0, <2>0, <2>3, <3>0, <3>1, <4>1, ClaimFrame
    <3>2. CASE result' = [by |-> c, kind |-> outcome[c]] /\ Goto(c, "notify")
      <4>1. /\ point'[c] = "notify" /\ \A d \in Coros : d # c => point'[d] = point[d]
        BY <1>0, <2>3, <3>2 DEF Goto
      <4>2. /\ result = NoResult /\ ~state[Notify].set /\ completed
            /\ \A d \in Children : point[d] = "publish" => d = c
        BY <1>0, <2>3, <3>0 DEF ClaimInv
      <4>3. point'[Parent] \notin AfterTaken
        BY <1>0, <2>3, <4>1, <4>2 DEF NotifyInv
      <4>4. ~cancelled
        BY <1>0, <4>2 DEF CancelledInv
      <4>5. outcome[c] # "cancelled"
        BY <1>0, <2>3, <4>4 DEF OutcomeInv
      <4>6. result' # NoResult /\ result'.kind # "cancelled"
        BY <2>3, <3>2, <4>5, ResultIsOne
      <4> QED BY <1>0, <2>0, <2>3, <3>0, <4>1, <4>2, <4>3, <4>6 DEF ClaimInv
    <3> QED BY <2>3, <3>1, <3>2 DEF PublishStep, Publish
  <2>4. CASE c \in Children /\ SetNotify(c)
    <3>1. /\ UNCHANGED <<taken, result, completed>> /\ point[c] = "notify"
          /\ point'[c] = "waking" /\ \A d \in Coros : d # c => point'[d] = point[d]
      BY <1>0, <2>4 DEF SetNotify, Goto, sharedVars, anyVars
    <3> QED BY <1>0, <2>0, <2>4, <3>1 DEF ClaimInv
  <2>5. CASE c = Parent /\ CoAwaitNotify
    <3>1. /\ UNCHANGED <<state, taken, result, completed>>
          /\ point'[Parent] = "ready" /\ \A d \in Children : point'[d] = point[d]
      BY <1>0, <2>5 DEF CoAwaitNotify, Goto, sharedVars, anyVars
    <3> QED BY <1>0, <2>0, <3>1, ClaimFrame DEF AfterTaken
  <2>6. CASE c = Parent /\ TakeResult
    <3>1. /\ UNCHANGED <<state, result, completed>> /\ taken' = result
          /\ \A d \in Children : point'[d] = point[d]
      BY <1>0, <2>6 DEF TakeResult, Goto, anyVars
    <3> QED BY <1>0, <2>0, <3>1 DEF ClaimInv
  <2>7. CASE c = Parent /\ CancelLosers
    <3>1. /\ UNCHANGED <<state, result, completed, taken>> /\ point[Parent] = "cancel"
          /\ \A d \in Children : point'[d] = point[d]
      BY <1>0, <2>7 DEF CancelLosers, Goto, anyVars
    <3> QED BY <1>0, <2>0, <3>1, ClaimFrame DEF AfterTaken
  <2> QED BY <1>5, <2>1, <2>2, <2>3, <2>4, <2>5, <2>6, <2>7 DEF AnyActs
<1>6. CASE Surroundings
  <2>0. UNCHANGED <<combinator, result, completed>>
    BY <1>6 DEF Surroundings, restVars, anyVars
  <2>1. CASE (\E c \in Children : Spawn(c)) \/ SyncStart \/ SyncWait \/ SpuriousWakeup
             \/ SyncSet
    <3>1. /\ UNCHANGED <<state, taken>>
          /\ \A d \in Children : point'[d] = point[d] \/ point'[d] = "ready"
          /\ \/ point'[Parent] = point[Parent]
             \/ point'[Parent] = "spawn" \/ point[Parent] = "final"
      BY <1>0, <2>1 DEF Spawn, SyncStart, SyncWait, SpuriousWakeup, SyncSet, Leave, Goto,
           eventVars, sharedVars
    <3> QED BY <1>0, <2>0, <3>1, ClaimFrame DEF AfterTaken
  <2>2. ASSUME NEW t \in Threads, SetGate(t) PROVE ClaimInv'
    <3>1. /\ UNCHANGED <<taken, point>> /\ state'[Notify] = state[Notify]
      BY <1>0, <2>2 DEF SetGate, SetEvent, sharedVars
    <3> QED BY <1>0, <2>0, <3>1, ClaimFrame
  <2> QED BY <1>6, <2>1, <2>2 DEF Surroundings
<1>7. ASSUME NEW c \in Coros, AllActs(c) PROVE FALSE
  BY <1>7 DEF AllActs
<1> QED BY <1>1, <1>2, <1>3, <1>4, <1>5, <1>6, <1>7, StepKinds

-----------------------------------------------------------------------------
(* Who has not arrived changes only with a child that leaves.              *)
LEMMA SameArrived ==
  ASSUME \A c \in Children : point'[c] \in {"leaving", "done"} <=> point[c] \in {"leaving", "done"}
  PROVE  NotArrived' = NotArrived
  BY DEF NotArrived

(* A step in which the parent of a when_all stays where it is and no child *)
(* arrives; outcomes may change as long as somebody has not arrived.       *)
LEMMA JoinFrame ==
  ASSUME AllJoined, combinator = "all",
         UNCHANGED <<combinator, count, taken, hasSource>>,
         NotArrived' = NotArrived, point'[Parent] = point[Parent],
         outcome' = outcome \/ NotArrived # {}
  PROVE  AllJoined'
  BY DEF AllJoined, LatchCounts, ParentAfterChildren

(* The latch counts those that have not arrived, so that the parent goes   *)
(* on once, when all have, and finds all outcomes final.                   *)
LEMMA JoinKept ==
  ASSUME CombinatorInductive, Next
  PROVE  AllJoined'
<1> SUFFICES ASSUME combinator = "all" PROVE AllJoined'
  <2>1. combinator # "all" => UNCHANGED combinator
    BY StepKinds DEF Awaits, AwaitsToken, Wakes, Quits, AnyActs, AllActs, Surroundings, restVars
  <2> QED BY <2>1 DEF AllJoined
<1>0. /\ TypeOK /\ PointsInv /\ AllJoined /\ LatchCounts /\ ParentAfterChildren
      /\ OutcomeInv /\ CancelledInv
      /\ Children \subseteq Coros /\ Parent \in Coros /\ Parent \notin Children
      /\ point \in [Coros -> Points] /\ waking \in [Callers -> Seq(Coros)]
      /\ count \in Int /\ outcome \in [Children -> Kinds \cup {None}]
  <2>1. Len(Tasks) \in Nat
    BY CombinatorAssumption
  <2> QED BY <2>1, NamesDiffer DEF CombinatorInductive, TypeOK, AllJoined
<1>1. ASSUME NEW c \in Coros, NEW e \in Events, Awaits(c, e) PROVE AllJoined'
  <2>0. /\ UNCHANGED <<combinator, count, taken, hasSource, outcome>> /\ AwaiterStep(c, e)
        /\ c \in Children
    BY <1>1 DEF Awaits, sharedVars, restVars, anyVars
  <2>1. /\ \A d \in Coros : d # c => point'[d] = point[d]
        /\ point'[c] \in {"load", "push", "resume", "suspended"}
        /\ point[c] \in {"ready", "load", "push"}
    BY <1>0, <2>0 DEF AwaiterStep, AwaitReady, LoadState, Push, PushAgain, DoNotSuspend, Goto
  <2>2. NotArrived' = NotArrived
    BY <1>0, <2>1, SameArrived
  <2> QED BY <1>0, <2>0, <2>1, <2>2, JoinFrame
<1>2. ASSUME NEW c \in Children, AwaitsToken(c) PROVE AllJoined'
  <2>1. /\ UNCHANGED <<combinator, count, taken, hasSource, outcome>>
        /\ \A d \in Coros : d # c => point'[d] = point[d]
        /\ point'[c] \in {"register", "resume", "suspended"}
        /\ point[c] \in {"ready", "register"}
    BY <1>0, <1>2 DEF AwaitsToken, AwaitToken, RegisterOnToken, Leave, Goto,
         sharedVars, restVars, anyVars
  <2>2. NotArrived' = NotArrived
    BY <1>0, <2>1, SameArrived
  <2> QED BY <1>0, <2>1, <2>2, JoinFrame
<1>3. ASSUME NEW x \in Callers, Wakes(x) PROVE AllJoined'
  <2>1. /\ UNCHANGED <<combinator, count, taken, hasSource, outcome>>
        /\ waking[x] # <<>> /\ Goto(Head(waking[x]), "resume")
    BY <1>3 DEF Wakes, Wake, ResumeNext, sharedVars, restVars, anyVars
  <2>2. Head(waking[x]) \in Coros /\ Head(waking[x]) \in ToSet(waking[x])
    BY <1>0, <2>1, ToSetTail
  <2>3. point[Head(waking[x])] = "suspended"
    BY <1>0, <2>2, WhoIsListed DEF CombinatorInductive
  <2>4. \A d \in Coros :
          point'[d] = point[d] \/ (point[d] = "suspended" /\ point'[d] = "resume")
    BY <1>0, <2>1, <2>2, <2>3 DEF Goto
  <2>5. NotArrived' = NotArrived
    BY <1>0, <2>4, SameArrived
  <2>6. point'[Parent] = point[Parent]
    BY <1>0, <2>4 DEF PointsInv, AllParent
  <2> QED BY <1>0, <2>1, <2>5, <2>6, JoinFrame
<1>4. ASSUME NEW c \in Coros, Quits(c) PROVE AllJoined'
  <2>1. /\ UNCHANGED <<combinator, count, taken, hasSource, outcome>>
        /\ c \in Children /\ \A d \in Coros : d # c => point'[d] = point[d]
        /\ \/ point[c] = "cancelling" /\ point'[c] = "arrive"
           \/ point[c] = "leaving" /\ point'[c] = "done"
    BY <1>0, <1>4 DEF Quits, Goto, sharedVars, restVars, anyVars
  <2>2. NotArrived' = NotArrived
    BY <1>0, <2>1, SameArrived
  <2> QED BY <1>0, <2>1, <2>2, JoinFrame
<1>5. ASSUME NEW c \in Coros, AllActs(c) PROVE AllJoined'
  <2>0. UNCHANGED combinator
    BY <1>5 DEF AllActs
  <2>1. CASE c \in Children /\ CompleteTask(c)
    <3>1. /\ UNCHANGED <<count, taken, hasSource>> /\ point[c] = "resume"
          /\ \A d \in Coros : d # c => point'[d] = point[d]
          /\ point'[c] \in {"failed", "arrive"}
      BY <1>0, <2>1 DEF CompleteTask, Complete, Goto
    <3>2. NotArrived' = NotArrived
      BY <1>0, <2>1, <3>1, SameArrived
    <3>3. c \in NotArrived
      BY <2>1, <3>1 DEF NotArrived
    <3> QED BY <1>0, <2>0, <2>1, <3>1, <3>2, <3>3, JoinFrame
  <2>2. CASE c \in Children /\ FailedChild(c)
    <3>1. /\ UNCHANGED <<count, taken, hasSource, outcome>> /\ point[c] = "failed"
          /\ \A d \in Coros : d # c => point'[d] = point[d]
          /\ point'[c] = "cancelling"
      BY <1>0, <2>2 DEF FailedChild, Goto
    <3>2. NotArrived' = NotArrived
      BY <1>0, <2>2, <3>1, SameArrived
    <3> QED BY <1>0, <2>0, <2>2, <3>1, <3>2, JoinFrame
  <2>3. CASE c \in Children /\ point[c] = "arrive" /\ FinalSuspend(c)
    <3>0. /\ UNCHANGED <<taken, hasSource, outcome>> /\ count' = count - 1
          /\ c \in NotArrived
      BY <2>3 DEF FinalSuspend, Arrive, NotArrived, sharedVars
    <3>1. /\ Cardinality(NotArrived) = Cardinality(NotArrived \ {c}) + 1
          /\ Cardinality(NotArrived \ {c}) \in Nat
          /\ Cardinality(NotArrived \ {c}) = 0 <=> NotArrived \ {c} = {}
      BY <3>0, NotArrivedFinite, CountOne, FS_RemoveElement, FS_EmptySet, FS_CardinalityType,
         ZenonT(60)
    <3>2. CASE count = 1 /\ point' = [point EXCEPT ![c] = "leaving", ![Parent] = "resume"]
      <4>1. /\ point'[c] = "leaving" /\ point'[Parent] = "resume"
            /\ \A d \in Children : d # c => point'[d] = point[d]
        BY <1>0, <2>3, <3>2
      <4>2. NotArrived' = NotArrived \ {c}
        BY <1>0, <2>3, <4>1 DEF NotArrived
      <4>3. /\ Cardinality(NotArrived \ {c}) = 0
            /\ point[Parent] \notin {"unspawned", "spawn"}
        BY <1>0, <3>1, <3>2 DEF LatchCounts
      <4>4. Cardinality(NotArrived') = 0 /\ count' = 0 /\ NotArrived' = {}
        BY <3>0, <3>1, <3>2, <4>2, <4>3
      <4>5. LatchCounts' /\ ParentAfterChildren'
        BY <4>1, <4>4 DEF LatchCounts, ParentAfterChildren
      <4> QED BY <2>0, <4>1, <4>5 DEF AllJoined
    <3>3. CASE count # 1 /\ Goto(c, "done")
      <4>1. /\ point'[c] = "done" /\ point'[Parent] = point[Parent]
            /\ \A d \in Children : d # c => point'[d] = point[d]
        BY <1>0, <2>3, <3>3 DEF Goto
      <4>2. NotArrived' = NotArrived \ {c}
        BY <1>0, <2>3, <4>1 DEF NotArrived
      <4>3. point[Parent] \notin {"resume", "final", "done"}
        BY <1>0, <3>0 DEF ParentAfterChildren
      <4>4. LatchCounts'
        BY <1>0, <3>0, <3>1, <4>1, <4>2 DEF LatchCounts
      <4>5. point[Parent] = "latched" => NotArrived' # {}
        BY <1>0, <3>1, <3>3, <4>2 DEF LatchCounts
      <4> QED BY <2>0, <4>1, <4>3, <4>4, <4>5 DEF AllJoined, ParentAfterChildren
    <3> QED BY <2>3, <3>2, <3>3 DEF FinalSuspend, Arrive, Leave
  <2>4. CASE c = Parent /\ TryAwait
    <3>1. /\ UNCHANGED <<taken, hasSource, outcome>> /\ count' = count - 1
          /\ point[Parent] = "spawn"
          /\ point'[Parent] = IF count > 1 THEN "latched" ELSE "resume"
          /\ \A d \in Children : point'[d] = point[d]
      BY <1>0, <2>4 DEF TryAwait, AllSpawned, Leave, Goto, sharedVars
    <3>2. NotArrived' = NotArrived
      BY <3>1, SameArrived
    <3>3. /\ count = Cardinality(NotArrived) + 1
          /\ Cardinality(NotArrived) = 0 <=> NotArrived = {}
      BY <1>0, <3>1, NotArrivedFinite, FS_EmptySet DEF LatchCounts
    <3>4. LatchCounts'
      BY <3>1, <3>2, <3>3, NotArrivedFinite DEF LatchCounts
    <3>5. ParentAfterChildren'
      BY <3>1, <3>2, <3>3, NotArrivedFinite DEF ParentAfterChildren
    <3> QED BY <2>0, <3>1, <3>4, <3>5 DEF AllJoined
  <2>5. CASE c = Parent /\ TakeAll
    <3>1. /\ UNCHANGED <<count, hasSource, outcome>> /\ taken' = FirstFailure
          /\ point[Parent] = "resume" /\ point'[Parent] = "final"
          /\ \A d \in Children : point'[d] = point[d]
      BY <1>0, <2>5 DEF TakeAll, Goto
    <3>2. NotArrived' = NotArrived
      BY <3>1, SameArrived
    <3>3. LatchCounts' /\ ParentAfterChildren'
      BY <1>0, <3>1, <3>2 DEF LatchCounts, ParentAfterChildren
    <3>4. taken'.kind = "value" <=> \A d \in Children : outcome[d] = "value"
      BY <3>1, FirstFailureIs
    <3>5. taken'.kind = "cancelled" =>
            hasSource /\ \E d \in Children : outcome[d] = "exception"
      BY <1>0, <3>1, FirstFailureIs DEF OutcomeInv, CancelledInv
    <3> QED BY <2>0, <3>1, <3>3, <3>4, <3>5 DEF AllJoined
  <2> QED BY <1>5, <2>1, <2>2, <2>3, <2>4, <2>5 DEF AllActs
<1>6. CASE Surroundings
  <2>0. UNCHANGED <<combinator, count>>
    BY <1>6 DEF Surroundings, restVars
  <2>1. ASSUME NEW c \in Children, Spawn(c) PROVE AllJoined'
    <3>1. /\ UNCHANGED <<taken, hasSource, outcome>> /\ point[c] = "unspawned"
          /\ point'[c] = "ready" /\ \A d \in Coros : d # c => point'[d] = point[d]
      BY <1>0, <2>1 DEF Spawn, Goto, sharedVars
    <3>2. NotArrived' = NotArrived
      BY <1>0, <3>1, SameArrived
    <3> QED BY <1>0, <2>0, <2>1, <3>1, <3>2, JoinFrame
  <2>2. CASE SyncStart \/ SyncSet
    <3>1. /\ UNCHANGED <<taken, hasSource, outcome>>
          /\ \/ point[Parent] = "unspawned" /\ point'[Parent] = "spawn"
             \/ point[Parent] = "final" /\ point'[Parent] = "done"
          /\ \A d \in Children : point'[d] = point[d]
      BY <1>0, <2>2 DEF SyncStart, SyncSet, Leave, Goto, CombinatorInductive, SyncInv
    <3>2. NotArrived' = NotArrived
      BY <3>1, SameArrived
    <3> QED BY <1>0, <2>0, <3>1, <3>2 DEF AllJoined, LatchCounts, ParentAfterChildren
  <2>3. ASSUME SyncWait \/ SpuriousWakeup \/ \E t \in Threads : SetGate(t) PROVE AllJoined'
    <3>1. UNCHANGED <<taken, hasSource, outcome, point>>
      BY <2>3 DEF SyncWait, SpuriousWakeup, SetGate, eventVars, sharedVars
    <3>2. NotArrived' = NotArrived
      BY <3>1, SameArrived
    <3> QED BY <1>0, <2>0, <3>1, <3>2, JoinFrame
  <2> QED BY <1>6, <2>1, <2>2, <2>3 DEF Surroundings
<1>7. ASSUME NEW c \in Coros, AnyActs(c) PROVE FALSE
  BY <1>7 DEF AnyActs
<1> QED BY <1>1, <1>2, <1>3, <1>4, <1>5, <1>6, <1>7, StepKinds

-----------------------------------------------------------------------------
(* Nothing has been started, set or cancelled.                             *)
LEMMA CombinatorsStart == Init => CombinatorInductive
<1> SUFFICES ASSUME Init PROVE CombinatorInductive
  OBVIOUS
<1> USE DEF Init, SharedInit, EventInit, AnyInit, AllInit, Unset
<1>0. /\ Len(Tasks) \in Nat /\ Children \subseteq Coros /\ Coros \subseteq Callers
      /\ Parent \in Coros /\ Notify \in Events
  BY CombinatorAssumption, NamesDiffer
<1>1. TypeOK
  <2>1. <<>> \in Seq(Coros) /\ "unspawned" \in Points
    BY DEF Points
  <2>2. /\ taken \in [by : Children \cup {None}, kind : Kinds \cup {None}]
        /\ result \in [by : Children, kind : Kinds] \cup {NoResult}
    BY DEF NoResult
  <2>3. count \in 0..(Len(Tasks) + 1)
    BY <1>0
  <2> QED BY <2>1, <2>2, <2>3 DEF TypeOK
<1>2. PointsInv
  BY <1>0 DEF PointsInv, AnyParent, AllParent, AnyChild, AllChild, Before
<1>3. WakingInv
  BY <1>0 DEF WakingInv
<1>4. SuspendedIffListedOnce
  <2>1. \A l \in Lists : Listed(l) = <<>>
    BY ListNames
  <2>2. \A l \in Lists : IsInjective(Listed(l)) /\ ToSet(Listed(l)) = {}
    BY <2>1, ToSetEmpty DEF IsInjective
  <2>3. {c \in Coros : point[c] = "suspended"} = {}
    OBVIOUS
  <2> QED BY <2>2, <2>3 DEF SuspendedIffListedOnce
<1>5. NobodyWaitsOnSetEvent
  BY DEF NobodyWaitsOnSetEvent
<1>6. OutcomeInv
  BY <1>0, NamesDiffer DEF OutcomeInv, Before
<1>7. CancelledInv /\ SyncInv
  BY <1>0 DEF CancelledInv, SyncInv, AfterTaken
<1>8. NotifyInv
  BY <1>0, ToSetEmpty DEF NotifyInv, AfterTaken
<1>9. ClaimInv
  <2>1. NoResult.kind # "cancelled"
    BY NamesDiffer DEF NoResult
  <2> QED BY <1>0, <2>1 DEF ClaimInv, AfterTaken
<1>10. AllJoined
  <2>1. NotArrived = Children
    BY <1>0 DEF NotArrived
  <2>2. LatchCounts
    BY <1>0, <2>1, ChildrenCounted DEF LatchCounts
  <2> QED BY <1>0, <2>2 DEF AllJoined, ParentAfterChildren
<1> QED BY <1>1, <1>2, <1>3, <1>4, <1>5, <1>6, <1>7, <1>8, <1>9, <1>10
           DEF CombinatorInductive

(* The invariant of the combinators is inductive.                          *)
LEMMA CombinatorStep == CombinatorInductive /\ [Next]_vars => CombinatorInductive'
<1>1. ASSUME CombinatorInductive, Next PROVE CombinatorInductive'
  <2>1. TypeOK'
    BY <1>1, TypesKept
  <2>2. PointsInv' /\ OutcomeInv' /\ WakingInv'
    BY <1>1, PointsKept
  <2>3. SuspendedIffListedOnce' /\ NobodyWaitsOnSetEvent'
    BY <1>1, <2>1, ListsKept
  <2>4. SyncInv' /\ CancelledInv'
    BY <1>1, SyncKept
  <2>5. NotifyInv' /\ ClaimInv' /\ AllJoined'
    BY <1>1, NotifyKept, ClaimKept, JoinKept
  <2> QED BY <2>1, <2>2, <2>3, <2>4, <2>5 DEF CombinatorInductive
<1>2. ASSUME CombinatorInductive, UNCHANGED vars PROVE CombinatorInductive'
  <2> USE <1>2 DEF CombinatorInductive, vars, eventVars, sharedVars, anyVars
  <2>1. TypeOK'
    BY DEF TypeOK
  <2>2. PointsInv' /\ OutcomeInv' /\ WakingInv' /\ SyncInv' /\ CancelledInv'
    BY DEF PointsInv, OutcomeInv, WakingInv, SyncInv, CancelledInv
  <2>3. SuspendedIffListedOnce'
    <3>1. \A l \in Lists : Listed(l)' = Listed(l)
      BY ListNames
    <3>2. Suspended' = Suspended
      BY DEF Suspended
    <3> QED BY <3>1, <3>2, ListsStay
  <2>4. NobodyWaitsOnSetEvent' /\ NotifyInv' /\ ClaimInv'
    BY DEF NobodyWaitsOnSetEvent, NotifyInv, ClaimInv
  <2>5. AllJoined'
    BY DEF AllJoined, LatchCounts, ParentAfterChildren, NotArrived
  <2> QED BY <2>1, <2>2, <2>3, <2>4, <2>5
<1> QED BY <1>1, <1>2

(* It holds of every state of the composition.                             *)
LEMMA CombinatorInvariance == Spec => []CombinatorInductive
<1> QED BY CombinatorsStart, CombinatorStep, PTL DEF Spec

(* A suspended coroutine is in one list, which is not that of an event     *)
(* that is set, and sync_wait() returns with the parent's result           *)
(* (manual_reset_event::set, cancellation_state, sync_wait_event).         *)
THEOREM WaitersAreSafe == Spec => []WaitersInvariant
<1>1. CombinatorInductive => WaitersInvariant
  BY DEF CombinatorInductive, WaitersInvariant, ReturnsWithResult, SyncInv, AfterTaken
<1> QED BY <1>1, CombinatorInvariance, PTL

(* The first child of a when_any to claim gives the parent its result, and *)
(* no child that the cancellation has stopped does                         *)
(* (when_any.hpp, completion_state).                                       *)
THEOREM FirstResultWins == Spec => []AnyResult
<1>1. CombinatorInductive => AnyResult
  BY DEF CombinatorInductive, AnyResult, ParentTakesResult, NotifyInv, ClaimInv, AfterTaken
<1> QED BY <1>1, CombinatorInvariance, PTL

(* The latch of a when_all lets the parent go on once, after every child,  *)
(* with a value exactly if all have one (when_all_latch, when_all.hpp).    *)
THEOREM AllAreJoined == Spec => []AllJoined
<1>1. CombinatorInductive => AllJoined
  BY DEF CombinatorInductive
<1> QED BY <1>1, CombinatorInvariance, PTL

-----------------------------------------------------------------------------
(***************************************************************************)
(* The thread pool.                                                        *)
(***************************************************************************)

(* The workers between taking a task and counting themselves out.          *)
Inside == {"run", "notify_run", "notify", "finish"}

(* The two counters of the pool are exact: what the queues hold,           *)
PendingExact == pending = Len(global) + SumFunction(LocalSizes)
(* and who is between taking a task and counting itself out.               *)
ActiveExact  == active = Cardinality(WorkersAt(Inside))

(* No handle is in two places of the queues,                               *)
QueuesInv ==
  /\ IsInjective(global)
  /\ \A w \in Workers : /\ IsInjective(local[w])
                        /\ ToSet(global) \cap ToSet(local[w]) = {}
  /\ \A v, w \in Workers : v # w => ToSet(local[v]) \cap ToSet(local[w]) = {}

(* and a running task is on one worker and in no queue.                    *)
RunningInv ==
  \A w \in Workers : running[w] # NoTask =>
    /\ running[w] \notin Queued
    /\ \A v \in Workers : running[v] = running[w] => v = w

(* A worker that has left found the pool stopped and drained, and nothing  *)
(* can fill it again.                                                      *)
ExitInv == WorkersAt({"exit"}) # {} => ShouldExit

(* The sets whose sizes are compared are finite.                           *)
FiniteInv == IsFiniteSet(Queued \cup Running) /\ IsFiniteSet(notifying)

(* The points of a worker that runs a task,                                *)
Runners == {"run", "notify_run"}
(* and of one that is going to look for work or to wake another one.       *)
Lookers == {"lock", "notify", "notify_run"}

(* The inductive invariant.                                                *)
PoolInductive ==
  /\ PoolTypeOK
  /\ PendingExact
  /\ ActiveExact
  /\ QueuesInv
  /\ RunningInv
  /\ FiniteInv
  /\ HandlesUnique
  /\ ExitIsAnnounced
  /\ ExitInv
  /\ WakeupsCoverWork

-----------------------------------------------------------------------------
(* What one number loses the other gains.                                  *)
LEMMA OneComesOneGoes ==
  ASSUME NEW a \in Int, NEW b \in Int, NEW c \in Int, NEW d \in Int,
         (a = c + 1 /\ d = b + 1) \/ (c = a + 1 /\ b = d + 1)
  PROVE  c + d = a + b
  OBVIOUS

(* A part and the whole lose one each.                                     *)
LEMMA BothLoseOne ==
  ASSUME NEW a \in Int, NEW b \in Int, NEW c \in Int, NEW d \in Int, NEW e \in Int,
         a + b = c, b = d + 1, c = e + 1
  PROVE  a + d = e
  OBVIOUS

(* The workers at some points are finitely many.                           *)
LEMMA WorkersFinite ==
  ASSUME NEW P
  PROVE  /\ IsFiniteSet(WorkersAt(P)) /\ Cardinality(WorkersAt(P)) \in Nat
         /\ IsFiniteSet(WorkersAt(P)') /\ Cardinality(WorkersAt(P)') \in Nat
<1>1. WorkersAt(P) \subseteq Workers /\ WorkersAt(P)' \subseteq Workers
  BY DEF WorkersAt
<1> QED BY <1>1, WorkersAssumption, FS_Subset, FS_CardinalityType

(* One worker comes for another that goes.                                 *)
LEMMA MovesFromTo ==
  ASSUME NEW A, IsFiniteSet(A), NEW v, NEW w \in A, v \notin A \ {w}
  PROVE  Cardinality((A \ {w}) \cup {v}) >= Cardinality(A)
<1>1. IsFiniteSet(A \ {w}) /\ Cardinality(A) = Cardinality(A \ {w}) + 1
  BY CountOne
<1>2. Cardinality((A \ {w}) \cup {v}) = Cardinality(A \ {w}) + 1
  BY <1>1, CountOne
<1> QED BY <1>1, <1>2, CountOne

(* How many workers are at some points after one of them has moved.        *)
LEMMA WorkerMoves ==
  ASSUME wpc \in [Workers -> WorkerPoints], NEW w \in Workers, NEW p, NEW P,
         wpc' = [wpc EXCEPT ![w] = p]
  PROVE  /\ wpc[w] \notin P /\ p \in P =>
              Cardinality(WorkersAt(P)') = Cardinality(WorkersAt(P)) + 1
         /\ wpc[w] \in P /\ p \notin P =>
              Cardinality(WorkersAt(P)) = Cardinality(WorkersAt(P)') + 1
         /\ (wpc[w] \in P <=> p \in P) => WorkersAt(P)' = WorkersAt(P)
<1>1. ASSUME wpc[w] \notin P, p \in P
      PROVE  Cardinality(WorkersAt(P)') = Cardinality(WorkersAt(P)) + 1
  <2>1. WorkersAt(P)' = WorkersAt(P) \cup {w} /\ w \notin WorkersAt(P)
    BY <1>1 DEF WorkersAt
  <2> QED BY <2>1, WorkersFinite, CountOne
<1>2. ASSUME wpc[w] \in P, p \notin P
      PROVE  Cardinality(WorkersAt(P)) = Cardinality(WorkersAt(P)') + 1
  <2>1. WorkersAt(P)' = WorkersAt(P) \ {w} /\ w \in WorkersAt(P)
    BY <1>2 DEF WorkersAt
  <2> QED BY <2>1, WorkersFinite, CountOne
<1>3. ASSUME wpc[w] \in P <=> p \in P PROVE WorkersAt(P)' = WorkersAt(P)
  BY <1>3 DEF WorkersAt
<1> QED BY <1>1, <1>2, <1>3

(* What it takes to be queued, or to run.                                  *)
LEMMA QueuedOrRunning ==
  /\ \A t : t \in Queued <=> t \in ToSet(global) \/ \E w \in Workers : t \in ToSet(local[w])
  /\ \A t : t \in Running <=> t # NoTask /\ \E w \in Workers : running[w] = t
  BY DEF Queued, Running

-----------------------------------------------------------------------------
(* The sizes of all the workers' queues, when one changes by k.            *)
LEMMA LocalSizeChanges ==
  ASSUME local \in [Workers -> Seq(PoolTasks)], local' \in [Workers -> Seq(PoolTasks)],
         NEW w \in Workers, NEW k \in Int, Len(local'[w]) = Len(local[w]) + k,
         \A v \in Workers \ {w} : local'[v] = local[v]
  PROVE  /\ SumFunction(LocalSizes) \in Int
         /\ SumFunction(LocalSizes') = SumFunction(LocalSizes) + k
<1> DEFINE f == LocalSizes
           g == LocalSizes'
<1>1. f \in [Workers -> Int] /\ g \in [Workers -> Int]
  BY DEF LocalSizes
<1>2. \A v \in Workers \ {w} : g[v] = f[v]
  BY DEF LocalSizes
<1>3. g[w] = f[w] + k /\ f[w] \in Int /\ g[w] \in Int
  BY DEF LocalSizes
<1> HIDE DEF f, g
<1>4. /\ SumFunction(f) \in Int /\ SumFunction(g) \in Int
      /\ SumFunction(g) = SumFunction(f) + g[w] - f[w]
  BY <1>1, <1>2, WorkersAssumption, SumChange
<1>5. SumFunction(g) = SumFunction(f) + k
  BY <1>3, <1>4
<1> QED BY <1>4, <1>5 DEF f, g

(* enqueue() of a handle that is in no queue.                              *)
LEMMA Pushed ==
  ASSUME PoolTypeOK, PendingExact, QueuesInv, NEW t \in PoolTasks, t \notin Queued,
         PushGlobal(t) \/ \E w \in Workers : PushLocal(w, t)
  PROVE  /\ global' \in Seq(PoolTasks) /\ local' \in [Workers -> Seq(PoolTasks)]
         /\ accepting /\ pending' \in Nat /\ pending' = pending + 1
         /\ PendingExact' /\ QueuesInv' /\ Queued' = Queued \cup {t}
<1> USE DEF PoolTypeOK
<1>1. /\ accepting /\ pending' \in Nat /\ pending' = pending + 1
  BY DEF PushGlobal, PushLocal
<1>2. t \notin ToSet(global) /\ \A w \in Workers : t \notin ToSet(local[w])
  BY QueuedOrRunning
<1>3. LocalSizes \in [Workers -> Int] /\ Len(global) \in Nat
  BY DEF LocalSizes
<1>4. CASE PushGlobal(t)
  <2>1. global' = Append(global, t) /\ local' = local
    BY <1>4 DEF PushGlobal
  <2>2. /\ global' \in Seq(PoolTasks) /\ IsInjective(global')
        /\ ToSet(global') = ToSet(global) \cup {t}
    BY <1>2, <2>1, ToSetAppend, InjectiveAppend DEF QueuesInv
  <2>3. QueuesInv'
    BY <1>2, <2>1, <2>2 DEF QueuesInv
  <2>4. Queued' = Queued \cup {t}
    BY <2>1, <2>2 DEF Queued
  <2>5. SumFunction(LocalSizes) \in Int
    <3>1. CASE Workers = {}
      <4>1. \A w \in Workers : LocalSizes[w] = 0
        BY <3>1
      <4> QED BY <4>1, <1>3, WorkersAssumption, SumOfZeros
    <3>2. CASE Workers # {}
      BY <3>2, <1>3, WorkersAssumption, SumChange
    <3> QED BY <3>1, <3>2
  <2>6. SumFunction(LocalSizes)' = SumFunction(LocalSizes)
    BY <2>1 DEF LocalSizes
  <2>7. Len(global') = Len(global) + 1
    BY <2>1
  <2>8. PendingExact'
    BY <1>1, <1>3, <2>5, <2>6, <2>7 DEF PendingExact
  <2> QED BY <1>1, <2>1, <2>2, <2>3, <2>4, <2>8
<1>5. ASSUME NEW w \in Workers, PushLocal(w, t)
      PROVE  /\ global' \in Seq(PoolTasks) /\ local' \in [Workers -> Seq(PoolTasks)]
             /\ PendingExact' /\ QueuesInv' /\ Queued' = Queued \cup {t}
  <2>1. global' = global /\ local' = [local EXCEPT ![w] = Append(local[w], t)]
    BY <1>5 DEF PushLocal
  <2>2. /\ local'[w] \in Seq(PoolTasks) /\ IsInjective(local'[w])
        /\ ToSet(local'[w]) = ToSet(local[w]) \cup {t} /\ Len(local'[w]) = Len(local[w]) + 1
    BY <1>2, <2>1, ToSetAppend, InjectiveAppend DEF QueuesInv
  <2>3. \A v \in Workers \ {w} : local'[v] = local[v]
    BY <2>1
  <2>4. local' \in [Workers -> Seq(PoolTasks)]
    BY <2>1, <2>2
  <2>5. QueuesInv'
    BY <1>2, <2>1, <2>2, <2>3 DEF QueuesInv
  <2>6. Queued' = Queued \cup {t}
    <3>1. \A x : (\E v \in Workers : x \in ToSet(local'[v]))
                   <=> x = t \/ \E v \in Workers : x \in ToSet(local[v])
      BY <2>2, <2>3
    <3>2. \A x : x \in Queued'
                   <=> x \in ToSet(global') \/ \E v \in Workers : x \in ToSet(local'[v])
      BY DEF Queued
    <3>3. \A x : x \in Queued' <=> x \in Queued \cup {t}
      BY <2>1, <3>1, <3>2, QueuedOrRunning
    <3> QED BY <3>3
  <2>7. /\ SumFunction(LocalSizes) \in Int
        /\ SumFunction(LocalSizes') = SumFunction(LocalSizes) + 1
    BY <1>3, <2>2, <2>3, <2>4, LocalSizeChanges
  <2>8. PendingExact'
    BY <1>1, <1>3, <2>1, <2>7 DEF PendingExact
  <2> QED BY <2>1, <2>4, <2>5, <2>6, <2>8
<1> QED BY <1>1, <1>4, <1>5

(* A handle comes out of the queue it was in, and out of the queues.       *)
LEMMA LeavesQueues ==
  ASSUME PoolTypeOK, QueuesInv, NEW t \in PoolTasks,
         global' \in Seq(PoolTasks), local' \in [Workers -> Seq(PoolTasks)],
         IsInjective(global'), \A v \in Workers : IsInjective(local'[v]),
         \/ /\ t \in ToSet(global) /\ ToSet(global') = ToSet(global) \ {t}
            /\ local' = local
         \/ \E w \in Workers :
              /\ t \in ToSet(local[w]) /\ ToSet(local'[w]) = ToSet(local[w]) \ {t}
              /\ global' = global /\ \A v \in Workers \ {w} : local'[v] = local[v]
  PROVE  /\ t \in Queued /\ Queued' = Queued \ {t} /\ QueuesInv'
<1>0. \A x : x \in Queued' <=> x \in ToSet(global') \/ \E v \in Workers : x \in ToSet(local'[v])
  BY DEF Queued
<1>1. CASE /\ t \in ToSet(global) /\ ToSet(global') = ToSet(global) \ {t}
           /\ local' = local
  <2>1. t \in Queued /\ \A v \in Workers : t \notin ToSet(local[v])
    BY <1>1, QueuedOrRunning DEF QueuesInv
  <2>2. \A x : x \in Queued' <=> x \in Queued \ {t}
    BY <1>0, <1>1, <2>1, QueuedOrRunning
  <2>3. QueuesInv'
    BY <1>1 DEF QueuesInv
  <2> QED BY <2>1, <2>2, <2>3
<1>2. ASSUME NEW w \in Workers,
             /\ t \in ToSet(local[w]) /\ ToSet(local'[w]) = ToSet(local[w]) \ {t}
             /\ global' = global /\ \A v \in Workers \ {w} : local'[v] = local[v]
      PROVE  t \in Queued /\ Queued' = Queued \ {t} /\ QueuesInv'
  <2>1. /\ t \in Queued /\ t \notin ToSet(global)
        /\ \A v \in Workers \ {w} : t \notin ToSet(local[v])
    BY <1>2, QueuedOrRunning DEF QueuesInv
  <2>2. \A x : x \in Queued' <=> x \in Queued \ {t}
    BY <1>0, <1>2, <2>1, QueuedOrRunning, ZenonT(60)
  <2>3. \A v \in Workers : ToSet(local'[v]) \subseteq ToSet(local[v])
    BY <1>2
  <2>4. QueuesInv'
    BY <1>2, <2>3 DEF QueuesInv
  <2> QED BY <2>1, <2>2, <2>4
<1> QED BY <1>1, <1>2

(* try_take_task_locked(), from whichever queue.                           *)
LEMMA Taken ==
  ASSUME PoolTypeOK, PendingExact, QueuesInv, pending # 0, NEW t \in PoolTasks, NEW w \in Workers,
         TakeTask(w, t), pending' = pending - 1
  PROVE  /\ global' \in Seq(PoolTasks) /\ local' \in [Workers -> Seq(PoolTasks)]
         /\ pending' \in Nat /\ pending = pending' + 1 /\ PendingExact'
         /\ t \in Queued /\ Queued' = Queued \ {t} /\ QueuesInv'
<1> USE DEF PoolTypeOK
<1>1. pending' \in Nat /\ pending = pending' + 1 /\ pending \in Int
  OBVIOUS
<1>2. LocalSizes \in [Workers -> Int] /\ Len(global) \in Nat
  BY DEF LocalSizes
<1>3. ASSUME NEW v \in Workers, global' = global, NEW q \in Seq(PoolTasks),
             local' = [local EXCEPT ![v] = q], Len(q) = Len(local[v]) - 1,
             ToSet(q) = ToSet(local[v]) \ {t}, t \in ToSet(local[v]), IsInjective(q)
      PROVE  /\ global' \in Seq(PoolTasks) /\ local' \in [Workers -> Seq(PoolTasks)]
             /\ PendingExact'
             /\ t \in Queued /\ Queued' = Queued \ {t} /\ QueuesInv'
  <2>1. /\ local' \in [Workers -> Seq(PoolTasks)] /\ local'[v] = q
        /\ \A u \in Workers \ {v} : local'[u] = local[u]
    BY <1>3
  <2>2. \A u \in Workers : IsInjective(local'[u])
    BY <1>3, <2>1 DEF QueuesInv
  <2>3. t \in Queued /\ Queued' = Queued \ {t} /\ QueuesInv'
    BY <1>3, <2>1, <2>2, LeavesQueues DEF QueuesInv
  <2>4. Len(local'[v]) = Len(local[v]) + (-1) /\ -1 \in Int
    BY <1>3, <2>1
  <2>5. /\ SumFunction(LocalSizes) \in Int
        /\ SumFunction(LocalSizes') = SumFunction(LocalSizes) + (-1)
    BY <2>1, <2>4, LocalSizeChanges
  <2>6. PendingExact'
    BY <1>1, <1>2, <1>3, <2>5 DEF PendingExact
  <2> QED BY <1>3, <2>1, <2>3, <2>6
<1>4. CASE local[w] # <<>> /\ t = Last(local[w])
             /\ local' = [local EXCEPT ![w] = Front(local[w])] /\ UNCHANGED global
  <2>1. /\ Front(local[w]) \in Seq(PoolTasks) /\ Len(Front(local[w])) = Len(local[w]) - 1
        /\ ToSet(local[w]) = ToSet(Front(local[w])) \cup {t}
        /\ IsInjective(Front(local[w])) /\ t \notin ToSet(Front(local[w]))
    BY <1>4, ToSetFront DEF QueuesInv
  <2> QED BY <1>1, <1>3, <1>4, <2>1
<1>5. CASE global # <<>> /\ t = Head(global) /\ global' = Tail(global) /\ UNCHANGED local
  <2>1. /\ global' \in Seq(PoolTasks) /\ Len(global) = Len(global') + 1
        /\ ToSet(global) = ToSet(global') \cup {t} /\ t \notin ToSet(global')
        /\ IsInjective(global')
    BY <1>5, ToSetTail, InjectiveTail DEF QueuesInv
  <2>0. /\ local' \in [Workers -> Seq(PoolTasks)] /\ \A v \in Workers : IsInjective(local'[v])
        /\ t \in ToSet(global) /\ ToSet(global') = ToSet(global) \ {t}
    BY <1>5, <2>1 DEF QueuesInv
  <2>2. t \in Queued /\ Queued' = Queued \ {t} /\ QueuesInv'
    BY <1>5, <2>0, <2>1, LeavesQueues
  <2>3. SumFunction(LocalSizes) \in Int
    BY <1>2, WorkersAssumption, SumChange
  <2>4. SumFunction(LocalSizes)' = SumFunction(LocalSizes)
    BY <1>5 DEF LocalSizes
  <2>5. PendingExact'
    BY <1>1, <1>2, <2>1, <2>3, <2>4 DEF PendingExact
  <2> QED BY <1>1, <1>5, <2>1, <2>2, <2>5
<1>6. ASSUME NEW v \in Workers, local[v] # <<>>, t = Head(local[v]),
             local' = [local EXCEPT ![v] = Tail(local[v])], UNCHANGED global
      PROVE  /\ global' \in Seq(PoolTasks) /\ local' \in [Workers -> Seq(PoolTasks)]
             /\ PendingExact'
             /\ t \in Queued /\ Queued' = Queued \ {t} /\ QueuesInv'
  <2>1. /\ Tail(local[v]) \in Seq(PoolTasks) /\ Len(Tail(local[v])) = Len(local[v]) - 1
        /\ ToSet(local[v]) = ToSet(Tail(local[v])) \cup {t}
        /\ t \notin ToSet(Tail(local[v]))
        /\ IsInjective(Tail(local[v]))
    BY <1>6, ToSetTail, InjectiveTail DEF QueuesInv
  <2> QED BY <1>3, <1>6, <2>1
<1> QED BY <1>1, <1>4, <1>5, <1>6 DEF TakeTask

-----------------------------------------------------------------------------
(* A step that moves no handle keeps what is said about handles.           *)
LEMMA NoHandleMoves ==
  ASSUME PoolInductive, UNCHANGED <<global, local, pending, running>>,
         WorkersAt(Runners)' = WorkersAt(Runners)
  PROVE  /\ PendingExact' /\ QueuesInv' /\ RunningInv' /\ HandlesUnique'
         /\ IsFiniteSet(Queued \cup Running)'
<1>1. Queued' = Queued /\ Running' = Running
  BY DEF Queued, Running
<1>2. LocalSizes' = LocalSizes
  BY DEF LocalSizes
<1>3. PendingExact' /\ QueuesInv'
  BY <1>2 DEF PoolInductive, PendingExact, QueuesInv
<1>4. RunningInv'
  BY <1>1 DEF PoolInductive, RunningInv
<1>5. HandlesUnique'
  BY <1>1 DEF PoolInductive, HandlesUnique, Runners
<1> QED BY <1>1, <1>3, <1>4, <1>5 DEF PoolInductive, FiniteInv

(* Nothing is pending once a worker may exit.                              *)
LEMMA DrainedMeansEmpty ==
  ASSUME PoolInductive, ShouldExit
  PROVE  /\ Queued = {} /\ Running = {} /\ WorkersAt(Inside) = {}
<1>1. pending = 0 /\ active = 0
  BY DEF ShouldExit, MayExit
<1>2. WorkersAt(Inside) = {}
  BY <1>1, WorkersFinite, FS_EmptySet DEF PoolInductive, ActiveExact
<1>3. WorkersAt(Runners) = {}
  BY <1>2 DEF WorkersAt, Inside, Runners
<1>4. Cardinality(Queued \cup Running) = 0
  BY <1>1, <1>3, FS_EmptySet DEF PoolInductive, HandlesUnique, Runners
<1>5. Queued \cup Running = {}
  BY <1>4, FS_EmptySet DEF PoolInductive, FiniteInv
<1> QED BY <1>2, <1>5

(* A new pool.                                                             *)
LEMMA PoolStarts == PoolInit => PoolInductive
<1> SUFFICES ASSUME PoolInit PROVE PoolInductive
  OBVIOUS
<1> USE DEF PoolInit
<1>1. PoolTypeOK
  BY DEF PoolTypeOK, WorkerPoints, StopPoints
<1>2. Queued = {}
  <2>1. \A t : t \notin Queued
    BY QueuedOrRunning, ToSetEmpty
  <2> QED BY <2>1
<1>3. Running = {}
  BY DEF Running
<1>4. WorkersAt(Inside) = {} /\ WorkersAt(Runners) = {} /\ WorkersAt({"sleep"}) = {}
      /\ WorkersAt({"exit"}) = {}
  BY DEF WorkersAt, Inside, Runners
<1>5. LocalSizes \in [Workers -> Int] /\ \A w \in Workers : LocalSizes[w] = 0
  BY DEF LocalSizes
<1>6. PendingExact
  BY <1>5, WorkersAssumption, SumOfZeros DEF PendingExact
<1>7. ActiveExact /\ HandlesUnique /\ FiniteInv
  BY <1>2, <1>3, <1>4, FS_EmptySet DEF ActiveExact, HandlesUnique, FiniteInv, Runners
<1>8. QueuesInv
  BY ToSetEmpty DEF QueuesInv, IsInjective
<1>9. RunningInv /\ ExitIsAnnounced /\ ExitInv /\ WakeupsCoverWork
  BY <1>4 DEF RunningInv, ExitIsAnnounced, ExitInv, WakeupsCoverWork
<1> QED BY <1>1, <1>6, <1>7, <1>8, <1>9 DEF PoolInductive

-----------------------------------------------------------------------------
(* A wake-up of one sleeper, or of none when nobody sleeps, and possibly   *)
(* the end of a notifying worker's call: no worker enters or leaves        *)
(* resume() and none exits.                                                *)
LEMMA OneIsWoken ==
  ASSUME PoolTypeOK, WorkersAt({"sleep"}) # {}, NEW w \in Workers, wpc[w] = "sleep",
         wpc' = [wpc EXCEPT ![w] = "lock"]
  PROVE  /\ wpc' \in [Workers -> WorkerPoints]
         /\ WorkersAt(Runners)' = WorkersAt(Runners)
         /\ WorkersAt(Inside)' = WorkersAt(Inside)
         /\ WorkersAt({"exit"})' = WorkersAt({"exit"})
         /\ WorkersAt({"wake_all"})' = WorkersAt({"wake_all"})
         /\ WorkersAt({"sleep"})' \subseteq WorkersAt({"sleep"})
         /\ Cardinality(WorkersAt(Lookers)') = Cardinality(WorkersAt(Lookers)) + 1
<1> USE DEF PoolTypeOK
<1>1. wpc' \in [Workers -> WorkerPoints]
  BY DEF WorkerPoints
<1>2. Cardinality(WorkersAt(Lookers)') = Cardinality(WorkersAt(Lookers)) + 1
  BY WorkerMoves DEF Lookers
<1>3. WorkersAt(Runners)' = WorkersAt(Runners) /\ WorkersAt(Inside)' = WorkersAt(Inside)
  BY DEF WorkersAt, Runners, Inside
<1>4. /\ WorkersAt({"exit"})' = WorkersAt({"exit"})
      /\ WorkersAt({"wake_all"})' = WorkersAt({"wake_all"})
      /\ WorkersAt({"sleep"})' \subseteq WorkersAt({"sleep"})
  BY DEF WorkersAt
<1> QED BY <1>1, <1>2, <1>3, <1>4

(* Every step preserves the invariant.                                     *)
LEMMA PoolStep ==
  ASSUME PoolInductive, [PoolNext]_poolVars
  PROVE  PoolInductive'
<1> USE DEF PoolInductive
<1>t. PoolTypeOK
  OBVIOUS
<1> USE DEF PoolTypeOK
<1>1. ASSUME NEW t \in PoolTasks, ScheduleOutside(t) PROVE PoolInductive'
  <2>0. /\ t \in PoolTasks /\ t \notin Queued /\ t \notin Running /\ t \notin notifying
        /\ PushGlobal(t) /\ notifying' = notifying \cup {t}
        /\ UNCHANGED <<active, accepting, wpc, running, spc>>
    BY <1>1 DEF ScheduleOutside, Outside
  <2>1. /\ global' \in Seq(PoolTasks) /\ local' \in [Workers -> Seq(PoolTasks)]
        /\ accepting /\ pending' \in Nat /\ pending' = pending + 1
        /\ PendingExact' /\ QueuesInv' /\ Queued' = Queued \cup {t}
    BY <2>0, <1>t, Pushed
  <2>2. PoolTypeOK'
    BY <2>0, <2>1
  <2>3. \A P : WorkersAt(P)' = WorkersAt(P)
    BY <2>0 DEF WorkersAt
  <2>4. Running' = Running
    BY <2>0 DEF Running
  <2>5. ActiveExact'
    BY <2>0 DEF ActiveExact, WorkersAt
  <2>6. RunningInv'
    BY <2>0, <2>1, QueuedOrRunning DEF RunningInv
  <2>7. /\ (Queued \cup Running)' = (Queued \cup Running) \cup {t}
        /\ t \notin Queued \cup Running
    BY <2>0, <2>1, <2>4
  <2>8. /\ IsFiniteSet(Queued \cup Running)'
        /\ Cardinality((Queued \cup Running)') = Cardinality(Queued \cup Running) + 1
    BY <2>7, CountOne DEF FiniteInv
  <2>9. /\ IsFiniteSet(notifying') /\ Cardinality(notifying) \in Nat
        /\ Cardinality(notifying') = Cardinality(notifying) + 1
    BY <2>0, CountOne DEF FiniteInv
  <2>10. /\ WorkersAt(Runners)' = WorkersAt(Runners)
         /\ WorkersAt(Lookers)' = WorkersAt(Lookers)
    BY <2>0 DEF WorkersAt
  <2>11. HandlesUnique'
    BY <2>1, <2>8, <2>10, WorkersFinite, CountOne DEF HandlesUnique, Runners, FiniteInv
  <2>12. ExitIsAnnounced' /\ ExitInv'
    BY <2>0, <2>1 DEF ExitIsAnnounced, ExitInv, ShouldExit, MayExit, WorkersAt
  <2>13. WakeupsCoverWork'
    <3>1. WorkersAt({"sleep"})' = WorkersAt({"sleep"})
      BY <2>0 DEF WorkersAt
    <3> QED BY <2>1, <2>9, <2>10, <3>1, WorkersFinite DEF WakeupsCoverWork, Lookers
  <2> QED BY <2>1, <2>2, <2>5, <2>6, <2>8, <2>9, <2>11, <2>12, <2>13 DEF FiniteInv
<1>2. ASSUME NEW t \in PoolTasks, NotifyOutside(t) PROVE PoolInductive'
  <2>0. /\ t \in notifying /\ notifying' = notifying \ {t}
        /\ UNCHANGED <<global, local, pending, active, accepting, running, spc>>
    BY <1>2 DEF NotifyOutside, queueVars
  <2>1. /\ IsFiniteSet(notifying') /\ Cardinality(notifying) \in Nat
        /\ Cardinality(notifying') \in Nat
        /\ Cardinality(notifying) = Cardinality(notifying') + 1
    BY <2>0, CountOne, FS_CardinalityType DEF FiniteInv
  <2>2. ASSUME NEW w \in Workers, wpc[w] = "sleep", wpc' = [wpc EXCEPT ![w] = "lock"]
        PROVE  PoolInductive'
    <3>1. WorkersAt({"sleep"}) # {}
      BY <2>2 DEF WorkersAt
    <3>2. /\ wpc' \in [Workers -> WorkerPoints]
          /\ WorkersAt(Runners)' = WorkersAt(Runners)
          /\ WorkersAt(Inside)' = WorkersAt(Inside)
          /\ WorkersAt({"exit"})' = WorkersAt({"exit"})
          /\ WorkersAt({"wake_all"})' = WorkersAt({"wake_all"})
          /\ WorkersAt({"sleep"})' \subseteq WorkersAt({"sleep"})
          /\ Cardinality(WorkersAt(Lookers)') = Cardinality(WorkersAt(Lookers)) + 1
      BY <2>2, <3>1, <1>t, OneIsWoken
    <3>3. PoolTypeOK'
      BY <2>0, <2>2, <3>2
    <3>4. /\ PendingExact' /\ QueuesInv' /\ RunningInv' /\ HandlesUnique'
          /\ IsFiniteSet(Queued \cup Running)'
      BY <2>0, <3>2, NoHandleMoves
    <3>5. ActiveExact'
      BY <2>0, <3>2 DEF ActiveExact
    <3>6. ExitIsAnnounced' /\ ExitInv'
      BY <2>0, <3>1, <3>2 DEF ExitIsAnnounced, ExitInv, ShouldExit, MayExit
    <3>7. WakeupsCoverWork'
      BY <2>0, <2>1, <3>1, <3>2, WorkersFinite, SMTT(60) DEF WakeupsCoverWork, Lookers
    <3> QED BY <2>1, <3>3, <3>4, <3>5, <3>6, <3>7 DEF FiniteInv
  <2>3. ASSUME WorkersAt({"sleep"}) = {}, wpc' = wpc PROVE PoolInductive'
    <3>1. PoolTypeOK'
      BY <2>0, <2>3
    <3>2. \A P : WorkersAt(P)' = WorkersAt(P)
      BY <2>3 DEF WorkersAt
    <3>3. /\ PendingExact' /\ QueuesInv' /\ RunningInv' /\ HandlesUnique'
          /\ IsFiniteSet(Queued \cup Running)'
      BY <2>0, <3>2, NoHandleMoves
    <3>4. ActiveExact'
      BY <2>0, <2>3 DEF ActiveExact, WorkersAt
    <3>5. ExitIsAnnounced' /\ ExitInv' /\ WakeupsCoverWork'
      BY <2>0, <2>3 DEF ExitIsAnnounced, ExitInv, ShouldExit, MayExit, WakeupsCoverWork,
                          WorkersAt
    <3> QED BY <2>1, <3>1, <3>3, <3>4, <3>5 DEF FiniteInv
  <2>4. (\E w \in Workers : wpc[w] = "sleep" /\ wpc' = [wpc EXCEPT ![w] = "lock"])
          \/ (WorkersAt({"sleep"}) = {} /\ wpc' = wpc)
    BY <1>2 DEF NotifyOutside, NotifyOne, WGoto, WorkersAt
  <2> QED BY <2>2, <2>3, <2>4
<1>3. ASSUME NEW w \in Workers, WorkerSleep(w) \/ SleeperWakes(w) \/ WorkerExit(w)
      PROVE  PoolInductive'
  <2>0. PICK p \in {"sleep", "lock", "exit"} :
          /\ wpc' = [wpc EXCEPT ![w] = p]
          /\ UNCHANGED <<global, local, pending, active, accepting, running, spc,
                         notifying>>
          /\ \/ p = "sleep" /\ wpc[w] = "lock" /\ pending = 0 /\ ~ShouldExit
             \/ p = "lock" /\ wpc[w] = "sleep"
             \/ p = "exit" /\ wpc[w] = "lock" /\ ShouldExit
    BY <1>3 DEF WorkerSleep, SleeperWakes, WorkerExit, WGoto, queueVars
  <2>1. wpc' \in [Workers -> WorkerPoints]
    BY <2>0 DEF WorkerPoints
  <2>2. PoolTypeOK'
    BY <2>0, <2>1
  <2>3. WorkersAt(Runners)' = WorkersAt(Runners) /\ WorkersAt(Inside)' = WorkersAt(Inside)
    BY <2>0 DEF WorkersAt, Runners, Inside
  <2>4. /\ PendingExact' /\ QueuesInv' /\ RunningInv' /\ HandlesUnique'
        /\ IsFiniteSet(Queued \cup Running)'
    BY <2>0, <2>3, NoHandleMoves
  <2>5. ActiveExact' /\ FiniteInv'
    BY <2>0, <2>3, <2>4 DEF ActiveExact, FiniteInv
  <2>6. ShouldExit' <=> ShouldExit
    BY <2>0 DEF ShouldExit, MayExit
  <2>7. ExitInv'
    BY <2>0, <2>6 DEF ExitInv, WorkersAt
  <2>8. ExitIsAnnounced'
    <3>1. WorkersAt({"wake_all"})' = WorkersAt({"wake_all"})
      BY <2>0 DEF WorkersAt
    <3>2. CASE p = "sleep"
      BY <2>0, <2>6, <3>2 DEF ExitIsAnnounced
    <3>3. CASE p # "sleep"
      <4>1. WorkersAt({"sleep"})' \subseteq WorkersAt({"sleep"})
        BY <2>0, <3>3 DEF WorkersAt
      <4> QED BY <2>0, <2>6, <3>1, <4>1 DEF ExitIsAnnounced
    <3> QED BY <3>2, <3>3
  <2>9. WakeupsCoverWork'
    <3>1. Cardinality(notifying) \in Nat
      BY FS_CardinalityType DEF FiniteInv
    <3>2. CASE p = "lock"
      <4>1. Cardinality(WorkersAt(Lookers)') = Cardinality(WorkersAt(Lookers)) + 1
        BY <2>0, <3>2, WorkerMoves DEF Lookers
      <4>2. WorkersAt({"sleep"}) # {}
        BY <2>0, <3>2 DEF WorkersAt
      <4> QED BY <2>0, <3>1, <4>1, <4>2, WorkersFinite DEF WakeupsCoverWork, Lookers
    <3>3. CASE p # "lock"
      <4>1. pending' = 0
        BY <2>0, <3>3 DEF ShouldExit, MayExit
      <4> QED BY <2>0, <3>1, <4>1, WorkersFinite DEF WakeupsCoverWork
    <3> QED BY <3>2, <3>3
  <2> QED BY <2>2, <2>4, <2>5, <2>7, <2>8, <2>9
<1>4. ASSUME NEW w \in Workers, WorkerTake(w) PROVE PoolInductive'
  <2>0. PICK t \in PoolTasks :
          /\ wpc[w] = "lock" /\ pending # 0 /\ TakeTask(w, t)
          /\ running' = [running EXCEPT ![w] = t]
          /\ pending' = pending - 1 /\ active' = active + 1
          /\ wpc' = [wpc EXCEPT ![w] = "run"]
          /\ UNCHANGED <<accepting, spc, notifying>>
    BY <1>4 DEF WorkerTake, WGoto
  <2>1. /\ global' \in Seq(PoolTasks) /\ local' \in [Workers -> Seq(PoolTasks)]
        /\ pending' \in Nat /\ pending = pending' + 1 /\ PendingExact'
        /\ t \in Queued /\ Queued' = Queued \ {t} /\ QueuesInv'
    BY <1>t, <2>0, Taken
  <2>2. PoolTypeOK'
    <3>1. /\ running' \in [Workers -> PoolTasks \cup {NoTask}]
          /\ wpc' \in [Workers -> WorkerPoints]
      BY <2>0 DEF WorkerPoints
    <3>2. \A v \in Workers : running'[v] # NoTask <=> wpc'[v] \in {"run", "notify_run"}
      BY <2>0, NoTaskAssumption
    <3> QED BY <2>0, <2>1, <3>1, <3>2
  <2>3. /\ Cardinality(WorkersAt(Runners)') = Cardinality(WorkersAt(Runners)) + 1
        /\ Cardinality(WorkersAt(Inside)') = Cardinality(WorkersAt(Inside)) + 1
        /\ Cardinality(WorkersAt(Lookers)) = Cardinality(WorkersAt(Lookers)') + 1
    BY <2>0, WorkerMoves, ZenonT(60) DEF Runners, Inside, Lookers
  <2>4. ActiveExact'
    BY <2>0, <2>3 DEF ActiveExact
  <2>5. running[w] = NoTask /\ \A v \in Workers : running[v] # t
    <3>1. running[w] = NoTask
      BY <2>0
    <3> QED BY <2>1, <3>1, NoTaskAssumption DEF RunningInv
  <2>6. Running' = Running \cup {t}
    <3>1. \A x : x \in Running' <=> x # NoTask /\ \E v \in Workers : running'[v] = x
      BY DEF Running
    <3>2. \A x : x \in Running' <=> x \in Running \cup {t}
      BY <2>0, <2>5, <3>1, QueuedOrRunning, NoTaskAssumption
    <3> QED BY <3>2
  <2>7. RunningInv'
    BY <2>0, <2>1, <2>5 DEF RunningInv
  <2>8. (Queued \cup Running)' = Queued \cup Running
    BY <2>1, <2>6
  <2>9. FiniteInv' /\ Cardinality(Queued \cup Running) \in Nat
    BY <2>0, <2>8, FS_CardinalityType DEF FiniteInv
  <2>10. HandlesUnique'
    <3>1. pending' + Cardinality(WorkersAt(Runners)') = pending + Cardinality(WorkersAt(Runners))
      BY <2>1, <2>3, WorkersFinite, OneComesOneGoes
    <3> QED BY <2>8, <3>1 DEF HandlesUnique, Runners
  <2>11. ~ShouldExit /\ ~ShouldExit'
    BY <2>0 DEF ShouldExit, MayExit
  <2>12. /\ WorkersAt({"exit"})' = WorkersAt({"exit"})
         /\ WorkersAt({"sleep"})' = WorkersAt({"sleep"})
    BY <2>0 DEF WorkersAt
  <2>13. ExitInv' /\ ExitIsAnnounced'
    BY <2>11, <2>12 DEF ExitInv, ExitIsAnnounced
  <2>14. WakeupsCoverWork'
    <3>1. Cardinality(notifying) \in Nat
      BY FS_CardinalityType DEF FiniteInv
    <3>2. /\ Cardinality(WorkersAt(Lookers)) \in Nat /\ Cardinality(WorkersAt(Lookers)') \in Nat
          /\ pending \in Nat
      BY WorkersFinite
    <3>3. /\ pending' = pending - 1 /\ notifying' = notifying
          /\ Cardinality(WorkersAt(Lookers)) = Cardinality(WorkersAt(Lookers)') + 1
      BY <2>0, <2>3
    <3>4. WorkersAt({"sleep"}) # {} => pending <= Cardinality(WorkersAt(Lookers)) + Cardinality(notifying)
      BY DEF WakeupsCoverWork, Lookers
    <3>5. WorkersAt({"sleep"})' # {} =>
            pending' <= Cardinality(WorkersAt(Lookers)') + Cardinality(notifying')
      BY <2>12, <3>1, <3>2, <3>3, <3>4
    <3> QED BY <3>5 DEF WakeupsCoverWork, Lookers
  <2> QED BY <2>1, <2>2, <2>4, <2>7, <2>9, <2>10, <2>13, <2>14
<1>5. ASSUME NEW w \in Workers, TaskSchedules(w) \/ TaskYields(w) PROVE PoolInductive'
  <2>0. /\ wpc[w] = "run"
        /\ PushLocal(w, running[w]) \/ PushGlobal(running[w])
        /\ running' = [running EXCEPT ![w] = NoTask]
        /\ wpc' = [wpc EXCEPT ![w] = "notify"]
        /\ UNCHANGED <<active, accepting, spc, notifying>>
    BY <1>5 DEF TaskSchedules, TaskYields, Suspends, WGoto
  <2> DEFINE t == running[w]
  <2>00. t \in PoolTasks /\ t # NoTask /\ t \notin Queued /\ \A v \in Workers \ {w} : running[v] # t
    BY <2>0, NoTaskAssumption DEF RunningInv
  <2>1. /\ global' \in Seq(PoolTasks) /\ local' \in [Workers -> Seq(PoolTasks)]
        /\ accepting /\ pending' \in Nat /\ pending' = pending + 1
        /\ PendingExact' /\ QueuesInv' /\ Queued' = Queued \cup {t}
    BY <1>t, <2>0, <2>00, Pushed
  <2> HIDE DEF t
  <2>2. PoolTypeOK'
    BY <2>0, <2>1, NoTaskAssumption DEF WorkerPoints
  <2>3. /\ Cardinality(WorkersAt(Runners)) = Cardinality(WorkersAt(Runners)') + 1
        /\ WorkersAt(Inside)' = WorkersAt(Inside)
        /\ Cardinality(WorkersAt(Lookers)') = Cardinality(WorkersAt(Lookers)) + 1
    BY <2>0, WorkerMoves DEF Runners, Inside, Lookers
  <2>4. ActiveExact'
    BY <2>0, <2>3 DEF ActiveExact
  <2>6. Running' = Running \ {t}
    <3>1. \A x : x \in Running' <=> x # NoTask /\ \E v \in Workers : running'[v] = x
      BY DEF Running
    <3>2. \A x : x \in Running' <=> x \in Running \ {t}
      BY <2>0, <2>00, <3>1, QueuedOrRunning DEF t
    <3> QED BY <3>2
  <2>7. RunningInv'
    BY <2>0, <2>00, <2>1 DEF RunningInv, t
  <2>8. (Queued \cup Running)' = Queued \cup Running
    <3>1. t \in Running
      BY <2>00, QueuedOrRunning DEF t
    <3> QED BY <2>1, <2>6, <3>1
  <2>9. FiniteInv' /\ Cardinality(Queued \cup Running) \in Nat
    BY <2>0, <2>8, FS_CardinalityType DEF FiniteInv
  <2>10. HandlesUnique'
    <3>1. pending' + Cardinality(WorkersAt(Runners)') = pending + Cardinality(WorkersAt(Runners))
      BY <2>1, <2>3, WorkersFinite, OneComesOneGoes
    <3> QED BY <2>8, <3>1 DEF HandlesUnique, Runners
  <2>11. ~ShouldExit /\ ~ShouldExit'
    BY <2>0, <2>1 DEF ShouldExit, MayExit
  <2>12. /\ WorkersAt({"exit"})' = WorkersAt({"exit"})
         /\ WorkersAt({"sleep"})' = WorkersAt({"sleep"})
    BY <2>0 DEF WorkersAt
  <2>13. ExitInv' /\ ExitIsAnnounced'
    BY <2>11, <2>12 DEF ExitInv, ExitIsAnnounced
  <2>14. WakeupsCoverWork'
    <3>1. Cardinality(notifying) \in Nat
      BY FS_CardinalityType DEF FiniteInv
    <3> QED BY <2>0, <2>1, <2>3, <2>12, <3>1, WorkersFinite DEF WakeupsCoverWork, Lookers
  <2> QED BY <2>1, <2>2, <2>4, <2>7, <2>9, <2>10, <2>13, <2>14
<1>6. ASSUME NEW w \in Workers, TaskLeaves(w) PROVE PoolInductive'
  <2>0. /\ wpc[w] = "run"
        /\ running' = [running EXCEPT ![w] = NoTask]
        /\ wpc' = [wpc EXCEPT ![w] = "finish"]
        /\ UNCHANGED <<global, local, pending, active, accepting, spc, notifying>>
    BY <1>6 DEF TaskLeaves, Suspends, WGoto, queueVars
  <2> DEFINE t == running[w]
  <2>00. t \in PoolTasks /\ t # NoTask /\ t \notin Queued /\ \A v \in Workers \ {w} : running[v] # t
    BY <2>0, NoTaskAssumption DEF RunningInv
  <2> HIDE DEF t
  <2>1. Queued' = Queued /\ LocalSizes' = LocalSizes
    BY <2>0 DEF Queued, LocalSizes
  <2>2. PoolTypeOK'
    BY <2>0, NoTaskAssumption DEF WorkerPoints
  <2>3. /\ Cardinality(WorkersAt(Runners)) = Cardinality(WorkersAt(Runners)') + 1
        /\ WorkersAt(Inside)' = WorkersAt(Inside)
        /\ WorkersAt(Lookers)' = WorkersAt(Lookers)
    <3>1. Cardinality(WorkersAt(Runners)) = Cardinality(WorkersAt(Runners)') + 1
      BY <2>0, WorkerMoves DEF Runners
    <3> QED BY <2>0, <3>1 DEF WorkersAt, Inside, Lookers
  <2>4. ActiveExact' /\ PendingExact' /\ QueuesInv'
    BY <2>0, <2>1, <2>3 DEF ActiveExact, PendingExact, QueuesInv
  <2>6. Running' = Running \ {t} /\ t \in Running
    <3>1. \A x : x \in Running' <=> x # NoTask /\ \E v \in Workers : running'[v] = x
      BY DEF Running
    <3>2. \A x : x \in Running' <=> x \in Running \ {t}
      BY <2>0, <2>00, <3>1, QueuedOrRunning DEF t
    <3> QED BY <2>00, <3>2, QueuedOrRunning DEF t
  <2>7. RunningInv'
    BY <2>0, <2>00, <2>1 DEF RunningInv, t
  <2>8. (Queued \cup Running)' = (Queued \cup Running) \ {t} /\ t \in Queued \cup Running
    BY <2>00, <2>1, <2>6
  <2>9. /\ IsFiniteSet((Queued \cup Running)')
        /\ Cardinality((Queued \cup Running)') \in Nat
        /\ Cardinality(Queued \cup Running) = Cardinality((Queued \cup Running)') + 1
    <3> DEFINE H == Queued \cup Running
    <3>1. IsFiniteSet(H) /\ t \in H
      BY <2>8 DEF FiniteInv
    <3> HIDE DEF H
    <3>2. /\ IsFiniteSet(H \ {t}) /\ Cardinality(H) = Cardinality(H \ {t}) + 1
          /\ Cardinality(H \ {t}) \in Nat
      BY <3>1, CountOne, FS_CardinalityType
    <3> QED BY <2>8, <3>2 DEF H
  <2>10. HandlesUnique' /\ FiniteInv'
    <3>1. /\ pending + Cardinality(WorkersAt(Runners)) = Cardinality(Queued \cup Running)
          /\ pending' = pending /\ pending \in Int
      BY <2>0 DEF HandlesUnique, Runners
    <3>2. pending' + Cardinality(WorkersAt(Runners)') = Cardinality((Queued \cup Running)')
      <4> DEFINE a == pending
                 b == Cardinality(WorkersAt(Runners))
                 c == Cardinality(Queued \cup Running)
                 d == Cardinality(WorkersAt(Runners)')
                 e == Cardinality((Queued \cup Running)')
      <4>1. /\ a \in Int /\ b \in Int /\ c \in Int /\ d \in Int /\ e \in Int
            /\ a + b = c /\ b = d + 1 /\ c = e + 1
        BY <2>3, <2>9, <3>1, WorkersFinite
      <4> HIDE DEF a, b, c, d, e
      <4>2. a + d = e
        BY <4>1, BothLoseOne
      <4> QED BY <3>1, <4>2 DEF a, d, e
    <3> QED BY <2>0, <2>9, <3>2 DEF HandlesUnique, Runners, FiniteInv
  <2>12. /\ WorkersAt({"exit"})' = WorkersAt({"exit"})
         /\ WorkersAt({"sleep"})' = WorkersAt({"sleep"})
         /\ WorkersAt({"wake_all"})' = WorkersAt({"wake_all"})
    BY <2>0 DEF WorkersAt
  <2>13. ExitInv' /\ ExitIsAnnounced' /\ WakeupsCoverWork'
    BY <2>0, <2>3, <2>12
       DEF ExitInv, ExitIsAnnounced, ShouldExit, MayExit, WakeupsCoverWork, Lookers
  <2> QED BY <2>2, <2>4, <2>7, <2>9, <2>10, <2>13
<1>7. ASSUME NEW w \in Workers, TaskStartsTask(w) PROVE PoolInductive'
  <2>0. PICK t \in Outside :
          /\ wpc[w] = "run" /\ PushLocal(w, t)
          /\ wpc' = [wpc EXCEPT ![w] = "notify_run"]
          /\ UNCHANGED <<active, accepting, running, spc, notifying>>
    BY <1>7 DEF TaskStartsTask, WGoto
  <2>00. t \in PoolTasks /\ t \notin Queued /\ t \notin Running
    BY DEF Outside
  <2>1. /\ global' \in Seq(PoolTasks) /\ local' \in [Workers -> Seq(PoolTasks)]
        /\ accepting /\ pending' \in Nat /\ pending' = pending + 1
        /\ PendingExact' /\ QueuesInv' /\ Queued' = Queued \cup {t}
    BY <2>0, <2>00, <1>t, Pushed
  <2>2. PoolTypeOK'
    BY <2>0, <2>1 DEF WorkerPoints
  <2>3. /\ WorkersAt(Runners)' = WorkersAt(Runners)
        /\ WorkersAt(Inside)' = WorkersAt(Inside)
        /\ Cardinality(WorkersAt(Lookers)') = Cardinality(WorkersAt(Lookers)) + 1
    BY <2>0, WorkerMoves DEF Runners, Inside, Lookers
  <2>4. Running' = Running /\ ActiveExact'
    BY <2>0, <2>3 DEF Running, ActiveExact
  <2>5. RunningInv'
    BY <2>0, <2>00, <2>1, QueuedOrRunning DEF RunningInv
  <2>6. /\ (Queued \cup Running)' = (Queued \cup Running) \cup {t}
        /\ t \notin Queued \cup Running
    BY <2>00, <2>1, <2>4
  <2>7. /\ FiniteInv' /\ Cardinality(Queued \cup Running) \in Nat
        /\ Cardinality((Queued \cup Running)') = Cardinality(Queued \cup Running) + 1
    BY <2>0, <2>6, CountOne DEF FiniteInv
  <2>8. HandlesUnique'
    BY <2>1, <2>3, <2>7, WorkersFinite DEF HandlesUnique, Runners
  <2>9. ~ShouldExit /\ ~ShouldExit'
    BY <2>0, <2>1 DEF ShouldExit, MayExit
  <2>10. /\ WorkersAt({"exit"})' = WorkersAt({"exit"})
         /\ WorkersAt({"sleep"})' = WorkersAt({"sleep"})
    BY <2>0 DEF WorkersAt
  <2>11. ExitInv' /\ ExitIsAnnounced'
    BY <2>9, <2>10 DEF ExitInv, ExitIsAnnounced
  <2>12. WakeupsCoverWork'
    <3>1. Cardinality(notifying) \in Nat
      BY FS_CardinalityType DEF FiniteInv
    <3> QED BY <2>0, <2>1, <2>3, <2>10, <3>1, WorkersFinite DEF WakeupsCoverWork, Lookers
  <2> QED BY <2>1, <2>2, <2>4, <2>5, <2>7, <2>8, <2>11, <2>12
<1>8. ASSUME NEW w \in Workers, WorkerNotify(w) PROVE PoolInductive'
  <2>0. PICK n \in {"finish", "run"} :
          /\ n = IF wpc[w] = "notify" THEN "finish" ELSE "run"
          /\ wpc[w] \in {"notify", "notify_run"}
          /\ \/ \E v \in Workers : wpc[v] = "sleep"
                   /\ wpc' = [wpc EXCEPT ![w] = n, ![v] = "lock"]
             \/ (\A v \in Workers : wpc[v] # "sleep") /\ wpc' = [wpc EXCEPT ![w] = n]
          /\ UNCHANGED <<global, local, pending, active, accepting, running, spc,
                         notifying>>
    BY <1>8 DEF WorkerNotify, WGoto, queueVars
  <2>1. wpc' \in [Workers -> WorkerPoints]
    BY <2>0 DEF WorkerPoints
  <2>2. \A v \in Workers : wpc'[v] \in Runners <=> wpc[v] \in Runners
    BY <2>0 DEF Runners
  <2>3. PoolTypeOK'
    BY <2>0, <2>1, <2>2 DEF Runners
  <2>4. WorkersAt(Runners)' = WorkersAt(Runners) /\ WorkersAt(Inside)' = WorkersAt(Inside)
    <3>1. \A v \in Workers : wpc'[v] \in Inside <=> wpc[v] \in Inside
      BY <2>0 DEF Inside
    <3> QED BY <2>2, <3>1 DEF WorkersAt
  <2>5. /\ PendingExact' /\ QueuesInv' /\ RunningInv' /\ HandlesUnique'
        /\ IsFiniteSet(Queued \cup Running)'
    BY <2>0, <2>4, NoHandleMoves
  <2>6. ActiveExact' /\ FiniteInv'
    BY <2>0, <2>4, <2>5 DEF ActiveExact, FiniteInv
  <2>7. /\ WorkersAt({"exit"})' = WorkersAt({"exit"})
        /\ WorkersAt({"wake_all"})' = WorkersAt({"wake_all"})
        /\ WorkersAt({"sleep"})' \subseteq WorkersAt({"sleep"})
    BY <2>0 DEF WorkersAt
  <2>8. ExitInv' /\ ExitIsAnnounced'
    BY <2>0, <2>7 DEF ExitInv, ExitIsAnnounced, ShouldExit, MayExit
  <2>9. WakeupsCoverWork'
    <3>1. CASE \A v \in Workers : wpc[v] # "sleep"
      <4>1. WorkersAt({"sleep"})' = {}
        BY <2>7, <3>1 DEF WorkersAt
      <4> QED BY <4>1 DEF WakeupsCoverWork
    <3>2. ASSUME NEW v \in Workers, wpc[v] = "sleep", wpc' = [wpc EXCEPT ![w] = n,
                 ![v] = "lock"]
          PROVE  WakeupsCoverWork'
      <4>1. Cardinality(WorkersAt(Lookers)') >= Cardinality(WorkersAt(Lookers))
        <5>1. CASE n = "run"
          <6>1. WorkersAt(Lookers)' = (WorkersAt(Lookers) \ {w}) \cup {v}
            BY <2>0, <3>2, <5>1 DEF WorkersAt, Lookers
          <6>2. w \in WorkersAt(Lookers) /\ v \notin WorkersAt(Lookers) \ {w}
            BY <2>0, <3>2 DEF WorkersAt, Lookers
          <6> QED BY <6>1, <6>2, WorkersFinite, MovesFromTo
        <5>2. CASE n = "finish"
          <6>1. WorkersAt(Lookers)' = (WorkersAt(Lookers) \ {w}) \cup {v}
            BY <2>0, <3>2, <5>2 DEF WorkersAt, Lookers
          <6>2. w \in WorkersAt(Lookers) /\ v \notin WorkersAt(Lookers) \ {w}
            BY <2>0, <3>2 DEF WorkersAt, Lookers
          <6> QED BY <6>1, <6>2, WorkersFinite, MovesFromTo
        <5> QED BY <5>1, <5>2
      <4>2. WorkersAt({"sleep"}) # {}
        BY <3>2 DEF WorkersAt
      <4>3. Cardinality(notifying) \in Nat
        BY FS_CardinalityType DEF FiniteInv
      <4> QED BY <2>0, <4>1, <4>2, <4>3, WorkersFinite DEF WakeupsCoverWork, Lookers
    <3> QED BY <2>0, <3>1, <3>2
  <2> QED BY <2>3, <2>5, <2>6, <2>8, <2>9
<1>9. ASSUME NEW w \in Workers, WorkerFinish(w) PROVE PoolInductive'
  <2>0. PICK p \in {"wake_all", "lock"} :
          /\ wpc[w] = "finish" /\ active' = active - 1
          /\ MayExit(active - 1) <=> p = "wake_all"
          /\ wpc' = [wpc EXCEPT ![w] = p]
          /\ UNCHANGED <<global, local, pending, accepting, running, spc, notifying>>
    BY <1>9 DEF WorkerFinish, WGoto, queueVars
  <2>1. /\ WorkersAt(Runners)' = WorkersAt(Runners)
        /\ Cardinality(WorkersAt(Inside)) = Cardinality(WorkersAt(Inside)') + 1
        /\ Cardinality(WorkersAt(Lookers)') >= Cardinality(WorkersAt(Lookers))
    <3>1. /\ WorkersAt(Runners)' = WorkersAt(Runners)
          /\ Cardinality(WorkersAt(Inside)) = Cardinality(WorkersAt(Inside)') + 1
      BY <2>0, WorkerMoves, ZenonT(60) DEF Runners, Inside
    <3>2. CASE p = "lock"
      <4>1. Cardinality(WorkersAt(Lookers)') = Cardinality(WorkersAt(Lookers)) + 1
        BY <2>0, <3>2, WorkerMoves DEF Lookers
      <4> QED BY <3>1, <4>1, WorkersFinite
    <3>3. CASE p = "wake_all"
      <4>1. WorkersAt(Lookers)' = WorkersAt(Lookers)
        BY <2>0, <3>3 DEF WorkersAt, Lookers
      <4> QED BY <3>1, <4>1, WorkersFinite
    <3> QED BY <3>2, <3>3
  <2>2. active' \in Nat /\ ActiveExact'
    <3>1. active = Cardinality(WorkersAt(Inside)') + 1
      BY <2>1 DEF ActiveExact
    <3>2. active' = Cardinality(WorkersAt(Inside)')
      BY <2>0, <3>1, WorkersFinite
    <3> QED BY <3>2, WorkersFinite DEF ActiveExact
  <2>3. PoolTypeOK'
    BY <2>0, <2>2 DEF WorkerPoints
  <2>4. /\ PendingExact' /\ QueuesInv' /\ RunningInv' /\ HandlesUnique'
        /\ IsFiniteSet(Queued \cup Running)'
    BY <2>0, <2>1, NoHandleMoves
  <2>5. FiniteInv'
    BY <2>0, <2>4 DEF FiniteInv
  <2>6. /\ WorkersAt({"exit"})' = WorkersAt({"exit"})
        /\ WorkersAt({"sleep"})' = WorkersAt({"sleep"})
    BY <2>0 DEF WorkersAt
  <2>7. WorkersAt({"exit"}) = {}
    <3>1. w \in WorkersAt(Inside)
      BY <2>0 DEF WorkersAt, Inside
    <3> QED BY <3>1, DrainedMeansEmpty DEF ExitInv
  <2>8. ShouldExit' => p = "wake_all"
    BY <2>0 DEF ShouldExit, MayExit
  <2>9. p = "wake_all" => WorkersAt({"wake_all"})' # {}
    BY <2>0 DEF WorkersAt
  <2>10. ExitInv' /\ ExitIsAnnounced'
    BY <2>6, <2>7, <2>8, <2>9 DEF ExitInv, ExitIsAnnounced
  <2>11. WakeupsCoverWork'
    <3>1. Cardinality(notifying) \in Nat
      BY FS_CardinalityType DEF FiniteInv
    <3> QED BY <2>0, <2>1, <2>6, <3>1, WorkersFinite DEF WakeupsCoverWork, Lookers
  <2> QED BY <2>2, <2>3, <2>4, <2>5, <2>10, <2>11

<1>10. ASSUME wpc' \in {AwakeAll}
                   \cup {[AwakeAll EXCEPT ![w] = "lock"] : w \in WorkersAt({"wake_all"})},
              UNCHANGED <<global, local, pending, active, accepting, running, notifying>>,
              spc' \in [Stoppers -> StopPoints]
       PROVE  PoolInductive'
  <2>1. \A v \in Workers : wpc'[v] # "sleep" /\ wpc'[v] \in WorkerPoints
    BY <1>10 DEF AwakeAll, WorkersAt, WorkerPoints
  <2>2. \A v \in Workers : /\ wpc'[v] \in Inside <=> wpc[v] \in Inside
                           /\ wpc'[v] \in Runners <=> wpc[v] \in Runners
                           /\ wpc'[v] = "exit" <=> wpc[v] = "exit"
    BY <1>10 DEF AwakeAll, WorkersAt, Inside, Runners
  <2>3. wpc' \in [Workers -> WorkerPoints]
    BY <1>10, <2>1 DEF AwakeAll
  <2>4. PoolTypeOK'
    BY <1>10, <2>2, <2>3 DEF Runners
  <2>5. /\ WorkersAt(Runners)' = WorkersAt(Runners)
        /\ WorkersAt(Inside)' = WorkersAt(Inside)
        /\ WorkersAt({"exit"})' = WorkersAt({"exit"}) /\ WorkersAt({"sleep"})' = {}
    BY <2>1, <2>2 DEF WorkersAt
  <2>6. /\ PendingExact' /\ QueuesInv' /\ RunningInv' /\ HandlesUnique'
        /\ IsFiniteSet(Queued \cup Running)'
    BY <1>10, <2>5, NoHandleMoves
  <2>7. ActiveExact' /\ FiniteInv'
    BY <1>10, <2>5, <2>6 DEF ActiveExact, FiniteInv
  <2>8. ExitInv' /\ ExitIsAnnounced' /\ WakeupsCoverWork'
    BY <1>10, <2>5 DEF ExitInv, ExitIsAnnounced, WakeupsCoverWork, ShouldExit, MayExit
  <2> QED BY <2>4, <2>6, <2>7, <2>8
<1>11. ASSUME NEW w \in Workers, WorkerWakeAll(w) PROVE PoolInductive'
  <2>1. /\ w \in WorkersAt({"wake_all"}) /\ wpc' = [AwakeAll EXCEPT ![w] = "lock"]
        /\ UNCHANGED <<global, local, pending, active, accepting, running, notifying, spc>>
    BY <1>11 DEF WorkerWakeAll, WorkersAt, queueVars
  <2> QED BY <1>10, <2>1
<1>12. ASSUME NEW s \in Stoppers, StopWakeAll(s) PROVE PoolInductive'
  <2>1. /\ wpc' = AwakeAll /\ spc' = [spc EXCEPT ![s] = "join"]
        /\ UNCHANGED <<global, local, pending, active, accepting, running, notifying>>
    BY <1>12 DEF StopWakeAll, queueVars
  <2> QED BY <1>10, <2>1 DEF StopPoints
<1>13. ASSUME NEW s \in Stoppers, Stop(s) \/ StopJoined(s) PROVE PoolInductive'
  <2>0. /\ UNCHANGED <<global, local, pending, active, wpc, running, notifying>>
        /\ accepting' \in {FALSE, accepting} /\ spc' \in [Stoppers -> StopPoints]
        /\ accepting' # accepting => \E r \in Stoppers : spc'[r] = "wake_all"
        /\ \A r \in Stoppers : spc[r] = "wake_all" => spc'[r] = "wake_all"
    BY <1>13 DEF Stop, StopJoined, queueVars, StopPoints
  <2>1. PoolTypeOK'
    BY <2>0
  <2>2. WorkersAt(Runners)' = WorkersAt(Runners) /\ WorkersAt(Inside)' = WorkersAt(Inside)
    BY <2>0 DEF WorkersAt
  <2>3. /\ PendingExact' /\ QueuesInv' /\ RunningInv' /\ HandlesUnique'
        /\ IsFiniteSet(Queued \cup Running)'
    BY <2>0, <2>2, NoHandleMoves
  <2>4. ActiveExact' /\ FiniteInv'
    BY <2>0, <2>2, <2>3 DEF ActiveExact, FiniteInv
  <2>5. ShouldExit => ShouldExit'
    BY <2>0 DEF ShouldExit, MayExit
  <2>6. /\ WorkersAt({"exit"})' = WorkersAt({"exit"})
        /\ WorkersAt({"sleep"})' = WorkersAt({"sleep"})
        /\ WorkersAt({"wake_all"})' = WorkersAt({"wake_all"})
        /\ WorkersAt(Lookers)' = WorkersAt(Lookers)
    BY <2>0 DEF WorkersAt
  <2>7. ExitInv' /\ WakeupsCoverWork'
    BY <2>0, <2>5, <2>6 DEF ExitInv, WakeupsCoverWork, Lookers
  <2>8. ExitIsAnnounced'
    <3>1. CASE accepting' # accepting
      BY <2>0, <3>1 DEF ExitIsAnnounced
    <3>2. CASE accepting' = accepting
      BY <2>0, <2>6, <3>2 DEF ExitIsAnnounced, ShouldExit, MayExit
    <3> QED BY <3>1, <3>2
  <2> QED BY <2>1, <2>3, <2>4, <2>7, <2>8
<1>14. CASE UNCHANGED poolVars
  <2>0. UNCHANGED <<global, local, pending, active, accepting, wpc, running, spc,
                    notifying>>
    BY <1>14 DEF poolVars, queueVars
  <2>1. PoolTypeOK'
    BY <2>0
  <2>2. WorkersAt(Runners)' = WorkersAt(Runners) /\ WorkersAt(Inside)' = WorkersAt(Inside)
    BY <2>0 DEF WorkersAt
  <2>3. /\ PendingExact' /\ QueuesInv' /\ RunningInv' /\ HandlesUnique'
        /\ IsFiniteSet(Queued \cup Running)'
    BY <2>0, <2>2, NoHandleMoves
  <2>4. ActiveExact' /\ FiniteInv'
    BY <2>0, <2>2, <2>3 DEF ActiveExact, FiniteInv
  <2>5. ExitInv' /\ ExitIsAnnounced' /\ WakeupsCoverWork'
    BY <2>0
       DEF ExitInv, ExitIsAnnounced, WakeupsCoverWork, ShouldExit, MayExit, WorkersAt
  <2> QED BY <2>1, <2>3, <2>4, <2>5
<1> QED
  BY <1>1, <1>2, <1>3, <1>4, <1>5, <1>6, <1>7, <1>8, <1>9, <1>11, <1>12, <1>13, <1>14
     DEF PoolNext, WorkerStep, TaskSuspends, StopStep

(* So it holds throughout.                                                 *)
LEMMA PoolInvariance == PoolSpec => []PoolInductive
<1>1. PoolInit => PoolInductive
  BY PoolStarts
<1>2. PoolInductive /\ [PoolNext]_poolVars => PoolInductive'
  BY PoolStep
<1> QED BY <1>1, <1>2, PTL DEF PoolSpec

-----------------------------------------------------------------------------
(* The counters are what the workers take them for, no handle is queued or *)
(* run twice, the end is announced to every sleeper, and workers leave a   *)
(* drained pool only (thread_pool::worker_thread, stop).                   *)
THEOREM PoolIsSafe == PoolSpec => []PoolInvariant
<1>1. PoolInductive => PoolInvariant
  <2> SUFFICES ASSUME PoolInductive PROVE PoolInvariant
    OBVIOUS
  <2>1. CountersExact
    BY DEF PoolInductive, CountersExact, PendingExact, ActiveExact, Inside
  <2>2. ExitOnlyDrained
    BY DrainedMeansEmpty
       DEF PoolInductive, ExitOnlyDrained, ExitInv, ShouldExit, MayExit
  <2> QED BY <2>1, <2>2 DEF PoolInductive, PoolInvariant
<1> QED BY <1>1, PoolInvariance, PTL

(* While a worker sleeps, every queued task has a worker that is going to  *)
(* look, or a notification under way (thread_pool::enqueue).               *)
THEOREM NoTaskIsSleptOn == PoolSpec => []WakeupsCoverWork
<1>1. PoolInductive => WakeupsCoverWork
  BY DEF PoolInductive
<1> QED BY <1>1, PoolInvariance, PTL
=============================================================================
