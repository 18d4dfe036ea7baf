------------------------------ MODULE Combinator ------------------------------
(***************************************************************************)
(* What when_any (when_any.hpp) and when_all (when_all.hpp) share: a       *)
(* parent that starts one coroutine per awaitable and waits for them, with *)
(* or without a cancellation_source, and the thread that runs the parent   *)
(* in sync_wait() (sync_wait.hpp).                                         *)
(*                                                                         *)
(* A child waits for its gate, an event of the program that a thread sets  *)
(* at any time, or for the cancellation of the token, and then returns or  *)
(* throws.  Everything runs inline, on the stack of the thread that called *)
(* start(), set() or request_cancellation(): "callee" is that stack.       *)
(***************************************************************************)
EXTENDS ManualResetEvent

CONSTANTS
  Tasks,   \* the children, in the order of the arguments
  Parent,  \* the coroutine of sync_wait() that awaits the combinator
  Main,    \* the thread that calls sync_wait()
  Notify,  \* when_any's notify_event
  Token,   \* the gate of a child that waits for the cancellation
  Gate     \* what each child waits for

Children == ToSet(Tasks)
Kinds    == {"value", "exception", "cancelled"}

ASSUME CombinatorAssumption ==
  /\ Tasks \in Seq(Coros) /\ IsInjective(Tasks) /\ Tasks # <<>>
  /\ Parent \in Coros \ Children /\ Coros = Children \cup {Parent}
  /\ Main \in Threads /\ Threads \cap Coros = {}
  /\ Notify \in Events /\ Token \notin Events
  /\ Gate \in [Children -> (Events \ {Notify}) \cup {Token}]
  /\ None \notin Coros \cup Kinds

VARIABLES
  hasSource,  \* the call was given a cancellation_source
  cancelled,  \* its cancellation_state::cancelled_
  onToken,    \* its callbacks_: who waits for the token
  outcome,    \* how each child's awaitable has ended
  taken,      \* what the parent has returned or thrown
  isSet,      \* sync_wait_event::is_set_
  main        \* where the thread in sync_wait() is

sharedVars == <<hasSource, cancelled, onToken, outcome, taken, isSet, main>>

NoResult == [by |-> None, kind |-> None]

SharedInit ==
  /\ EventInit([c \in Coros |-> "unspawned"])
  /\ hasSource \in BOOLEAN /\ cancelled = FALSE /\ onToken = <<>>
  /\ outcome = [c \in Children |-> None]
  /\ taken = NoResult
  /\ isSet = FALSE /\ main = "start"

(* c returns or suspends: control goes back to whoever resumed it.         *)
Leave(c, to) == Goto(c, to) /\ Returned(c)

-----------------------------------------------------------------------------
(* co_await token: await_ready() and the first look of await_suspend(),    *)
AwaitToken(c) ==
  /\ point[c] = "ready" /\ Gate[c] = Token
  /\ Goto(c, IF hasSource /\ ~cancelled THEN "register" ELSE "resume")
  /\ UNCHANGED <<state, seen, waking, callee, sharedVars>>

(* and try_add_callback(), which refuses once the token is cancelled: then *)
(* c is resumed inside its own await_suspend().                            *)
RegisterOnToken(c) ==
  /\ point[c] = "register"
  /\ \/ cancelled /\ Goto(c, "resume") /\ UNCHANGED <<callee, onToken>>
     \/ ~cancelled /\ Leave(c, "suspended") /\ onToken' = Append(onToken, c)
  /\ UNCHANGED <<state, seen, waking, hasSource, cancelled, outcome, taken, isSet, main>>

(* request_cancellation(): the first caller takes the callbacks, which it  *)
(* runs one after the other.                                               *)
RequestCancellation(x) ==
  /\ cancelled' = TRUE
  /\ waking' = [waking EXCEPT ![x] = onToken]
  /\ onToken' = <<>>

-----------------------------------------------------------------------------
(* Start the children in order: each runs here until it suspends or ends.  *)
Spawn(c) ==
  /\ point[Parent] = "spawn" /\ callee[Parent] = None
  /\ \E i \in DOMAIN Tasks :
       /\ c = Tasks[i] /\ point[c] = "unspawned"
       /\ \A j \in 1..(i - 1) : point[Tasks[j]] # "unspawned"
  /\ Goto(c, "ready")
  /\ callee' = [callee EXCEPT ![Parent] = c]
  /\ UNCHANGED <<state, seen, waking, sharedVars>>

AllSpawned ==
  /\ point[Parent] = "spawn" /\ callee[Parent] = None
  /\ \A c \in Children : point[c] # "unspawned"

(* A child's awaitable returns a value or throws; one that looks at its    *)
(* token throws operation_cancelled.                                       *)
Complete(c, to) ==
  /\ c \in Children /\ point[c] = "resume"
  /\ \E k \in IF cancelled THEN Kinds ELSE {"value", "exception"} :
       outcome' = [outcome EXCEPT ![c] = k]
  /\ Goto(c, to)
  /\ UNCHANGED <<state, seen, waking, callee, hasSource, cancelled, onToken, taken,
                 isSet, main>>

-----------------------------------------------------------------------------
(* sync_wait(): start() runs the parent up to its first suspension,        *)
SyncStart ==
  /\ main = "start"
  /\ main' = "wait"
  /\ Goto(Parent, "spawn")
  /\ callee' = [callee EXCEPT ![Main] = Parent]
  /\ UNCHANGED <<state, seen, waking, hasSource, cancelled, onToken, outcome, taken, isSet>>

(* wait() looks at is_set_ under the lock and sleeps until it is notified, *)
SyncWait ==
  /\ main = "wait" /\ callee[Main] = None
  /\ main' = IF isSet THEN "returned" ELSE "asleep"
  /\ UNCHANGED <<eventVars, hasSource, cancelled, onToken, outcome, taken, isSet>>

(* or for no reason.                                                       *)
SpuriousWakeup ==
  /\ main = "asleep"
  /\ main' = "wait"
  /\ UNCHANGED <<eventVars, hasSource, cancelled, onToken, outcome, taken, isSet>>

(* final_suspend() of the parent: set() and notify_all() under the lock.   *)
SyncSet ==
  /\ point[Parent] = "final"
  /\ isSet' = TRUE
  /\ main' = IF main = "asleep" THEN "wait" ELSE main
  /\ Leave(Parent, "done")
  /\ UNCHANGED <<state, seen, waking, hasSource, cancelled, onToken, outcome, taken>>

SyncStep == SyncStart \/ SyncWait

-----------------------------------------------------------------------------
(* A thread of the program sets a gate, now or later, once or more.        *)
SetGate(t) ==
  /\ t # Main /\ SetReturns(t)
  /\ \E e \in Events \ {Notify} : SetEvent(t, e)
  /\ UNCHANGED <<point, sharedVars>>

Wake(x) == ResumeNext(x) /\ UNCHANGED sharedVars

(* A child's wait for its gate or the token.                               *)
AwaitGate(c) ==
  \/ Gate[c] # Token /\ AwaiterStep(c, Gate[c]) /\ UNCHANGED sharedVars
  \/ AwaitToken(c) \/ RegisterOnToken(c)
=============================================================================
