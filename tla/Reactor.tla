------------------------------- MODULE Reactor -------------------------------
(***************************************************************************)
(* Waiting for descriptors: the epoll_reactor (net/detail/epoll_reactor    *)
(* .hpp), the descriptor_state it shares with the sockets, and the         *)
(* fd_wait_awaiter of io_context, with the threads that cancel tokens and  *)
(* close sockets.  The loop is that of the module IoContext without        *)
(* timers, stop() and the eventfd: polling never blocks here.              *)
(*                                                                         *)
(* A critical section of a descriptor's mutex is one step, together with   *)
(* the enqueue_ready() that follows it, except in arm_wait(), which        *)
(* registers its cancellation callback while it holds the mutex.           *)
(*                                                                         *)
(* epoll_ctl() succeeds here: the path on which it refuses a descriptor    *)
(* and arm_wait() throws is left out.                                      *)
(*                                                                         *)
(* The kernel may report any event: readiness, or a hang-up, which counts  *)
(* for both directions.  An operation's address is free for the next       *)
(* awaiter as soon as its own is destroyed, whoever still points to it.    *)
(***************************************************************************)
EXTENDS Naturals, SequencesExt, FiniteSetsExt

CONSTANTS Coros,    \* coroutines
          Sources,  \* those that have a cancellation_source
          States,   \* descriptor_state objects
          Fds,      \* file descriptors
          FdOf,     \* descriptor_state::fd of each state
          Ops,      \* addresses of wait_operation_state objects
          NoCoro, NoOp, NoState

Kinds == {"read", "write"}

ASSUME ReactorAssumption ==
  /\ Sources \subseteq Coros
  /\ FdOf \in [States -> Fds]
  /\ NoCoro \notin Coros /\ NoOp \notin Ops /\ NoState \notin States

VARIABLES
  place,      \* where coroutine c is
  wait,       \* fd_wait_awaiter::state_, kind_ and whether it has a token_
  op,         \* the address of fd_wait_awaiter::operation_
  handle,     \* wait_operation_state::handle
  result,     \* wait_operation_state::completed, cancelled and error
  slot,       \* the operation of read_waiter and write_waiter
  closing,    \* descriptor_state::closing
  registered, \* descriptor_state::registered_events; {} if not registered
  mutex,      \* who holds descriptor_state::mutex between two steps
  epoll,      \* the kernel's interest list: data.ptr and events per fd
  ready,      \* io_context::ready_
  lpc,        \* where the loop is
  events,     \* events fetched by poll_once() and not dispatched yet
  batch,      \* the local queue of drain_ready()
  current,    \* the coroutine that the loop runs
  requested,  \* cancellation_state::cancelled_ of c's source
  callback,   \* cancellation_state::callbacks_ of c's source
  kpc,        \* where the thread that cancels c's source is
  kcb         \* the callback it moved out of callbacks_

waitVars   == <<wait, op, handle, result>>
stateVars  == <<slot, closing, registered, mutex, epoll>>
loopVars   == <<lpc, events, batch, current>>
cancelVars == <<requested, callback, kpc, kcb>>
vars == <<place, waitVars, stateVars, ready, loopVars, cancelVars>>

Places == {"away", "running", "arm", "register", "deadlock", "waiting"}
NoWait == [state |-> NoState, kind |-> "read", token |-> FALSE]
NoCallback == [state |-> NoState, kind |-> "read", op |-> NoOp]
NoInterest == [state |-> NoState, events |-> {}]

Init ==
  /\ place = [c \in Coros |-> "away"]
  /\ wait = [c \in Coros |-> NoWait]
  /\ op = [c \in Coros |-> NoOp]
  /\ handle = [o \in Ops |-> NoCoro]
  /\ result = [o \in Ops |-> "pending"]
  /\ slot = [s \in States |-> [k \in Kinds |-> NoOp]]
  /\ closing = [s \in States |-> FALSE]
  /\ registered = [s \in States |-> {}]
  /\ mutex = [s \in States |-> NoCoro]
  /\ epoll = [f \in Fds |-> NoInterest]
  /\ ready = <<>>
  /\ lpc = "poll" /\ events = {} /\ batch = <<>> /\ current = NoCoro
  /\ requested = [c \in Coros |-> FALSE]
  /\ callback = [c \in Coros |-> NoCallback]
  /\ kpc = [c \in Coros |-> "idle"]
  /\ kcb = [c \in Coros |-> NoCallback]

Move(c, to) == place' = [place EXCEPT ![c] = to]

(* c's code runs, on a thread of its own or on the loop thread.            *)
Runs(c) == place[c] \in {"away", "running"}
Home(c) == IF lpc = "running" /\ current = c THEN "running" ELSE "away"

(* await_suspend() is over: the loop thread goes on if it was its.         *)
LeavesLoop(c) ==
  IF Home(c) = "running"
    THEN lpc' = "resume" /\ current' = NoCoro /\ UNCHANGED <<events, batch>>
    ELSE UNCHANGED loopVars

-----------------------------------------------------------------------------
(* What the critical sections of a descriptor's mutex are made of.         *)

(* Mutant of UpdateInterest: nothing is taken out of the interest list.    *)
UpdateInterestOnce(s, desired) ==
  IF desired \subseteq registered[s]
    THEN UNCHANGED <<registered, epoll>>
    ELSE /\ registered' = [registered EXCEPT ![s] = desired]
         /\ epoll' = [epoll EXCEPT ![FdOf[s]] = [state |-> s, events |-> desired]]

(* update_interest_locked(), for the directions that have a waiter.  ADD   *)
(* falls back on MOD and MOD on ADD, so that the fd's entry is replaced    *)
(* whichever state it names.                                               *)
UpdateInterest(s, desired) ==
  IF desired = registered[s]
    THEN UNCHANGED <<registered, epoll>>
    ELSE /\ registered' = [registered EXCEPT ![s] = desired]
         /\ epoll' = [epoll EXCEPT ![FdOf[s]] =
              IF desired = {} THEN NoInterest ELSE [state |-> s, events |-> desired]]

WaitedFor(s) == {k \in Kinds : slot[s][k] # NoOp}

(* slot.operation = nullptr and complete_operation_locked() for the        *)
(* directions in kinds: each registration is withdrawn, the result is      *)
(* stored, and the coroutine is queued.                                    *)
Complete(s, kinds, how) ==
  LET done == {slot[s][k] : k \in kinds}
      Resumed(k) == IF k \in kinds /\ result[slot[s][k]] = "pending"
                      THEN <<handle[slot[s][k]]>>
                      ELSE <<>>
  IN  /\ slot' = [slot EXCEPT ![s] = [k \in Kinds |-> IF k \in kinds THEN NoOp ELSE @[k]]]
      /\ result' = [o \in Ops |-> IF o \in done THEN how ELSE result[o]]
      /\ callback' = [c \in Coros |-> IF op[c] \in done THEN NoCallback ELSE callback[c]]
      /\ ready' = ready \o Resumed("read") \o Resumed("write")

-----------------------------------------------------------------------------
(* co_await fd_wait_awaiter{...}: up to the token check of await_suspend.  *)
(* With a token already cancelled it throws and nothing changes.           *)
Wait(c) ==
  /\ Runs(c)
  /\ \E s \in States, k \in Kinds, tok \in BOOLEAN, o \in Ops :
       /\ tok => c \in Sources /\ ~requested[c]
       /\ o \notin {op[d] : d \in Coros}
       /\ wait' = [wait EXCEPT ![c] = [state |-> s, kind |-> k, token |-> tok]]
       /\ op' = [op EXCEPT ![c] = o]
       /\ result' = [result EXCEPT ![o] = "pending"]
       /\ handle' = [handle EXCEPT ![o] = NoCoro]
  /\ Move(c, "arm")
  /\ UNCHANGED <<stateVars, ready, loopVars, cancelVars>>

(* arm_wait() refuses: the descriptor is being closed, or its direction    *)
(* has a waiter and logic_error is thrown.  c goes on where it was.        *)
ArmRefused(c) ==
  LET s == wait[c].state IN
  /\ place[c] = "arm" /\ mutex[s] = NoCoro
  /\ closing[s] \/ slot[s][wait[c].kind] # NoOp
  /\ Move(c, Home(c))
  /\ wait' = [wait EXCEPT ![c] = NoWait]
  /\ op' = [op EXCEPT ![c] = NoOp]
  /\ UNCHANGED <<handle, result, stateVars, ready, loopVars, cancelVars>>

(* arm_wait() fills the slot and registers the interest.  Without a token  *)
(* that is all; with one it goes on to register the callback, and keeps    *)
(* the mutex.                                                              *)
ArmWait(c) ==
  LET s == wait[c].state
      k == wait[c].kind
  IN
  /\ place[c] = "arm" /\ mutex[s] = NoCoro
  /\ ~closing[s] /\ slot[s][k] = NoOp
  /\ handle' = [handle EXCEPT ![op[c]] = c]
  /\ slot' = [slot EXCEPT ![s][k] = op[c]]
  /\ UpdateInterest(s, WaitedFor(s) \cup {k})
  /\ IF wait[c].token
       THEN /\ mutex' = [mutex EXCEPT ![s] = c]
            /\ Move(c, "register")
            /\ UNCHANGED loopVars
       ELSE Move(c, "waiting") /\ LeavesLoop(c) /\ UNCHANGED mutex
  /\ UNCHANGED <<wait, op, result, closing, ready, cancelVars>>

(* cancellation_registration(): the callback is added, or called inline    *)
(* if the token has been cancelled since the check.  Then cancel_wait()    *)
(* locks the mutex its own thread holds, and never returns.                *)
Register(c) ==
  LET s == wait[c].state IN
  /\ place[c] = "register"
  /\ \/ /\ requested[c]
        /\ Move(c, "deadlock")
        /\ UNCHANGED <<mutex, callback, loopVars>>
     \/ /\ ~requested[c]
        /\ callback' = [callback EXCEPT ![c] =
                          [state |-> s, kind |-> wait[c].kind, op |-> op[c]]]
        /\ mutex' = [mutex EXCEPT ![s] = NoCoro]
        /\ Move(c, "waiting")
        /\ LeavesLoop(c)
  /\ UNCHANGED <<waitVars, slot, closing, registered, epoll, ready, requested, kpc, kcb>>

AwaiterStep(c) == ArmRefused(c) \/ ArmWait(c) \/ Register(c)

(* The coroutine leaves the loop for something else.                       *)
LeaveLoop(c) ==
  /\ place[c] = "running"
  /\ Move(c, "away")
  /\ LeavesLoop(c)
  /\ UNCHANGED <<waitVars, stateVars, ready, cancelVars>>

-----------------------------------------------------------------------------
(* The loop thread.                                                        *)

(* The directions that an event can make ready: those waited for, or both  *)
(* after an error or a hang-up.                                            *)
Reports(f) == {{k} : k \in epoll[f].events} \cup {Kinds}

PollOnce ==
  /\ lpc = "poll"
  /\ \E some \in SUBSET {f \in Fds : epoll[f] # NoInterest} :
       \E report \in [some -> SUBSET Kinds] :
         /\ \A f \in some : report[f] \in Reports(f)
         /\ events' = {[state |-> epoll[f].state, kinds |-> report[f]] : f \in some}
  /\ lpc' = "dispatch"
  /\ UNCHANGED <<place, waitVars, stateVars, ready, batch, current, cancelVars>>

(* dispatch_descriptor_event()                                             *)
Dispatch ==
  /\ lpc = "dispatch"
  /\ \E e \in events :
       /\ mutex[e.state] = NoCoro
       /\ events' = events \ {e}
       /\ IF closing[e.state]
            THEN UNCHANGED <<slot, result, callback, ready, registered, epoll>>
            ELSE /\ Complete(e.state, e.kinds \cap WaitedFor(e.state), "ready")
                 /\ UpdateInterest(e.state, WaitedFor(e.state) \ e.kinds)
  /\ UNCHANGED <<place, wait, op, handle, closing, mutex, lpc, batch, current,
                 requested, kpc, kcb>>

DispatchDone ==
  /\ lpc = "dispatch" /\ events = {}
  /\ batch' = ready
  /\ ready' = <<>>
  /\ lpc' = "resume"
  /\ UNCHANGED <<place, waitVars, stateVars, events, current, cancelVars>>

(* resume(): await_resume() reads the result, the awaiter is destroyed.    *)
ResumeNext ==
  /\ lpc = "resume" /\ batch # <<>>
  /\ LET c == Head(batch) IN
       /\ current' = c
       /\ Move(c, "running")
       /\ wait' = [wait EXCEPT ![c] = NoWait]
       /\ op' = [op EXCEPT ![c] = NoOp]
  /\ batch' = Tail(batch)
  /\ lpc' = "running"
  /\ UNCHANGED <<handle, result, stateVars, ready, events, cancelVars>>

DrainDone ==
  /\ lpc = "resume" /\ batch = <<>>
  /\ lpc' = "poll"
  /\ UNCHANGED <<place, waitVars, stateVars, ready, events, batch, current, cancelVars>>

LoopStep == PollOnce \/ Dispatch \/ DispatchDone \/ ResumeNext \/ DrainDone

-----------------------------------------------------------------------------
(* Mutant of Unregister: the writer is forgotten.                          *)
UnregisterReader(s) ==
  /\ ~closing[s] /\ mutex[s] = NoCoro
  /\ closing' = [closing EXCEPT ![s] = TRUE]
  /\ Complete(s, WaitedFor(s) \ {"write"}, "error")
  /\ UpdateInterest(s, {})
  /\ UNCHANGED <<place, wait, op, handle, mutex, loopVars, requested, kpc, kcb>>

(* socket::close(): unregister_descriptor() makes every wait fail.  The fd *)
(* is closed and set to -1 after that, which nothing here looks at.        *)
Unregister(s) ==
  /\ ~closing[s] /\ mutex[s] = NoCoro
  /\ closing' = [closing EXCEPT ![s] = TRUE]
  /\ Complete(s, WaitedFor(s), "error")
  /\ UpdateInterest(s, {})
  /\ UNCHANGED <<place, wait, op, handle, mutex, loopVars, requested, kpc, kcb>>

-----------------------------------------------------------------------------
(* request_cancellation() on c's source, and the callback of arm_wait().   *)
RequestCancellation(c) ==
  /\ c \in Sources /\ kpc[c] = "idle"
  /\ requested' = [requested EXCEPT ![c] = TRUE]
  /\ kpc' = [kpc EXCEPT ![c] = "swap"]
  /\ UNCHANGED <<place, waitVars, stateVars, ready, loopVars, callback, kcb>>

SwapCallbacks(c) ==
  /\ kpc[c] = "swap"
  /\ kcb' = [kcb EXCEPT ![c] = callback[c]]
  /\ callback' = [callback EXCEPT ![c] = NoCallback]
  /\ kpc' = [kpc EXCEPT ![c] = IF callback[c] = NoCallback THEN "done" ELSE "call"]
  /\ UNCHANGED <<place, waitVars, stateVars, ready, loopVars, requested>>

(* Mutants of CancelWait: the slot is cleared whatever it holds; the       *)
(* coroutine is not queued.                                                *)
CancelAnyWait(c) ==
  LET s == kcb[c].state
      k == kcb[c].kind
  IN
  /\ kpc[c] = "call" /\ mutex[s] = NoCoro
  /\ ready' = Append(ready, c)
  /\ slot' = [slot EXCEPT ![s][k] = NoOp]
  /\ UpdateInterest(s, WaitedFor(s) \ {k})
  /\ kpc' = [kpc EXCEPT ![c] = "done"]
  /\ kcb' = [kcb EXCEPT ![c] = NoCallback]
  /\ UNCHANGED <<place, waitVars, closing, mutex, loopVars, requested, callback>>

CancelQuietly(c) ==
  LET s == kcb[c].state
      k == kcb[c].kind
  IN
  /\ kpc[c] = "call" /\ mutex[s] = NoCoro
  /\ IF slot[s][k] # kcb[c].op
       THEN UNCHANGED <<slot, registered, epoll>>
       ELSE slot' = [slot EXCEPT ![s][k] = NoOp] /\ UpdateInterest(s, WaitedFor(s) \ {k})
  /\ kpc' = [kpc EXCEPT ![c] = "done"]
  /\ kcb' = [kcb EXCEPT ![c] = NoCallback]
  /\ UNCHANGED <<place, waitVars, ready, closing, mutex, loopVars, requested, callback>>

(* cancel_wait(), which does nothing if the operation has left its slot.   *)
CancelWait(c) ==
  LET s == kcb[c].state
      k == kcb[c].kind
  IN
  /\ kpc[c] = "call" /\ mutex[s] = NoCoro
  /\ IF slot[s][k] # kcb[c].op
       THEN UNCHANGED <<slot, result, callback, ready, registered, epoll>>
       ELSE /\ Complete(s, {k}, "cancelled")
            /\ UpdateInterest(s, WaitedFor(s) \ {k})
  /\ kpc' = [kpc EXCEPT ![c] = "done"]
  /\ kcb' = [kcb EXCEPT ![c] = NoCallback]
  /\ UNCHANGED <<place, wait, op, handle, closing, mutex, loopVars, requested>>

CancelStep(c) == SwapCallbacks(c) \/ CancelWait(c)

Next ==
  \/ LoopStep
  \/ \E s \in States : Unregister(s)
  \/ \E c \in Coros :
       \/ Wait(c) \/ AwaiterStep(c) \/ LeaveLoop(c)
       \/ RequestCancellation(c) \/ CancelStep(c)

Spec == Init /\ [][Next]_vars

(* Threads go on and no coroutine occupies the loop for ever.  Nobody has  *)
(* to wait, close or cancel, and the kernel need not report anything.      *)
FairSpec ==
  /\ Spec
  /\ WF_vars(LoopStep)
  /\ \A c \in Coros :
       /\ WF_vars(AwaiterStep(c)) /\ WF_vars(CancelStep(c)) /\ SF_vars(LeaveLoop(c))

-----------------------------------------------------------------------------
InAwaiter == {"arm", "register", "deadlock", "waiting"}

(* The types of the code's variables; a coroutine has an awaiter exactly   *)
(* while it is in it.                                                      *)
TypeOK ==
  /\ place \in [Coros -> Places]
  /\ wait \in [Coros -> [state : States \cup {NoState}, kind : Kinds, token : BOOLEAN]]
  /\ op \in [Coros -> Ops \cup {NoOp}]
  /\ \A c \in Coros : op[c] # NoOp <=> place[c] \in InAwaiter
  /\ handle \in [Ops -> Coros \cup {NoCoro}]
  /\ result \in [Ops -> {"pending", "ready", "cancelled", "error"}]
  /\ slot \in [States -> [Kinds -> Ops \cup {NoOp}]]
  /\ closing \in [States -> BOOLEAN]
  /\ registered \in [States -> SUBSET Kinds]
  /\ mutex \in [States -> Coros \cup {NoCoro}]
  /\ epoll \in [Fds -> [state : States \cup {NoState}, events : SUBSET Kinds]]
  /\ ready \in Seq(Coros) /\ batch \in Seq(Coros)
  /\ lpc \in {"poll", "dispatch", "resume", "running"}
  /\ events \subseteq [state : States, kinds : SUBSET Kinds]
  /\ current \in Coros \cup {NoCoro}
  /\ requested \in [Coros -> BOOLEAN]
  /\ kpc \in [Coros -> {"idle", "swap", "call", "done"}]

(* A coroutine is queued for resumption at most once and only while it     *)
(* waits, whichever of event, close and cancellation came first.           *)
ResumeOnlyWaiting ==
  /\ IsInjective(batch \o ready)
  /\ \A c \in ToSet(batch \o ready) : place[c] = "waiting"

(* A waiting coroutine is queued, or its operation is in the slot where    *)
(* the kernel's event, the close or the cancellation will find it, and     *)
(* the kernel has been told of it.                                         *)
Reachable(c) ==
  LET s == wait[c].state
      k == wait[c].kind
  IN  /\ slot[s][k] = op[c] /\ handle[op[c]] = c /\ result[op[c]] = "pending"
      /\ epoll[FdOf[s]].state = s /\ k \in epoll[FdOf[s]].events

NobodyForgotten ==
  \A c \in Coros :
    place[c] = "waiting" => c \in ToSet(batch \o ready) \/ Reachable(c)

(* Slots, registered_events and the kernel agree: the loop never spins on  *)
(* a descriptor nobody waits for.                                          *)
InterestMatchesSlots ==
  \A s \in States :
    LET interest == epoll[FdOf[s]] IN
    /\ registered[s] = WaitedFor(s)
    /\ registered[s] = IF interest.state = s THEN interest.events ELSE {}

(* A slot only holds an operation whose coroutine is in that wait: no slot *)
(* outlives its awaiter.                                                   *)
SlotsHoldWaits ==
  \A s \in States : \A k \in WaitedFor(s) :
    \E c \in Coros :
      /\ op[c] = slot[s][k] /\ place[c] \in {"register", "deadlock", "waiting"}
      /\ wait[c].state = s /\ wait[c].kind = k

(* Once a socket has been closed nobody waits on it, and nobody can start. *)
ClosedMeansNobodyWaits ==
  \A s \in States : closing[s] => WaitedFor(s) = {} /\ registered[s] = {}

(* close() ends every wait on the socket.                                  *)
CloseEndsWaits ==
  \A c \in Coros, s \in States :
    place[c] = "waiting" /\ wait[c].state = s /\ closing[s] ~> place[c] # "waiting"

(* A cancelled token ends the wait whose callback it holds.                *)
RegisteredCancelEnds ==
  \A c \in Coros :
    place[c] = "waiting" /\ callback[c] # NoCallback /\ requested[c]
      ~> place[c] # "waiting"

(* README: a cancelled wait throws operation_cancelled, so it ends.        *)
CancelledWaitEnds ==
  \A c \in Coros :
    op[c] # NoOp /\ wait[c].token /\ requested[c] ~> op[c] = NoOp

(* What holds of the slots and the ready queue in every state: a slot ends *)
(* with its wait or with the socket, and a wait is resumed once and not    *)
(* forgotten.                                                              *)
ReactorInvariant ==
  /\ TypeOK
  /\ ResumeOnlyWaiting
  /\ NobodyForgotten
  /\ SlotsHoldWaits
  /\ ClosedMeansNobodyWaits
=============================================================================
