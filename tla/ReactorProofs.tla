---------------------------- MODULE ReactorProofs ----------------------------
(***************************************************************************)
(* Proofs about waiting for descriptors, for any coroutines, cancellation  *)
(* sources and sockets: a wait is queued for resumption once, whichever of *)
(* event, close and cancellation comes first, and while it is not, its     *)
(* operation is in its slot and the kernel watches for it.                 *)
(***************************************************************************)
EXTENDS Reactor, DataLemmas

(* What a callback of arm_wait() has captured.                             *)
Callbacks == [state : States, kind : Kinds, op : Ops]

(* What resume() will be called on, in this order.                         *)
Queue == batch \o ready

(* The callbacks that tokens and cancelling threads hold name a state, a   *)
(* direction and an operation; so does the kernel's interest list.  The    *)
(* loop takes the ready queue only when it has resumed the last one.       *)
RefInv ==
  /\ callback \in [Coros -> Callbacks \cup {NoCallback}]
  /\ kcb \in [Coros -> Callbacks \cup {NoCallback}]
  /\ \A c \in Coros : kpc[c] = "call" => kcb[c] # NoCallback
  /\ \A f \in Fds : epoll[f] # NoInterest => epoll[f].state \in States
  /\ lpc \in {"poll", "dispatch"} => batch = <<>>

(* Whoever awaits has an operation of its own, and holds the descriptor's  *)
(* mutex exactly while it registers its callback.                          *)
OpInv ==
  /\ \A c \in Coros : op[c] # NoOp => wait[c].state \in States
  /\ \A c, d \in Coros : op[c] = op[d] /\ op[c] # NoOp => c = d
  /\ \A c \in Coros : place[c] = "arm" => result[op[c]] = "pending"
  /\ \A c \in Coros :
       place[c] \in {"register", "deadlock"} => mutex[wait[c].state] = c

(* A slot holds the operation of a wait that nobody has completed and that *)
(* is not queued.                                                          *)
SlotInv ==
  \A s \in States, k \in Kinds :
    slot[s][k] # NoOp =>
      LET c == handle[slot[s][k]] IN
      /\ c \in Coros /\ c \notin ToSet(Queue)
      /\ op[c] = slot[s][k] /\ result[op[c]] = "pending"
      /\ wait[c].state = s /\ wait[c].kind = k
      /\ place[c] \in {"register", "deadlock", "waiting"}

(* A coroutine is queued once, and only while it waits.                    *)
QueueInv ==
  /\ IsInjective(Queue)
  /\ \A c \in ToSet(Queue) : place[c] = "waiting"

(* Whoever waits is in its slot until it is queued.                        *)
HeldInv ==
  \A c \in Coros :
    place[c] \in {"register", "deadlock", "waiting"} =>
      c \in ToSet(Queue) \/ slot[wait[c].state][wait[c].kind] = op[c]

ReactorInductive ==
  /\ TypeOK /\ RefInv /\ OpInv /\ SlotInv /\ QueueInv /\ HeldInv
  /\ ClosedMeansNobodyWaits

-----------------------------------------------------------------------------
(* Wait, for one choice of its parameters.                                 *)
WaitFor(c, s, k, tok, o) ==
  /\ Runs(c)
  /\ o \notin {op[d] : d \in Coros}
  /\ wait' = [wait EXCEPT ![c] = [state |-> s, kind |-> k, token |-> tok]]
  /\ op' = [op EXCEPT ![c] = o]
  /\ result' = [result EXCEPT ![o] = "pending"]
  /\ handle' = [handle EXCEPT ![o] = NoCoro]
  /\ Move(c, "arm")
  /\ UNCHANGED <<stateVars, ready, loopVars, cancelVars>>

(* resume() takes the first one.                                           *)
LEMMA QueuePop ==
  ASSUME batch \in Seq(Coros), ready \in Seq(Coros), batch # <<>>,
         batch' = Tail(batch), ready' = ready
  PROVE  /\ Head(batch) \in Coros /\ Tail(batch) \in Seq(Coros)
         /\ Head(batch) \in ToSet(Queue)
         /\ ToSet(Queue) = ToSet(Queue') \cup {Head(batch)}
         /\ IsInjective(Queue) => IsInjective(Queue') /\ Head(batch) \notin ToSet(Queue')
<1>1. /\ Queue' = Tail(Queue) /\ Queue \in Seq(Coros) /\ Queue # <<>>
      /\ Head(Queue) = Head(batch)
  BY DEF Queue
<1>2. Head(batch) \in Coros /\ Tail(batch) \in Seq(Coros)
  OBVIOUS
<1> HIDE DEF Queue
<1>3. ToSet(Queue) = ToSet(Tail(Queue)) \cup {Head(Queue)}
  BY <1>1, ToSetTail
<1>4. ASSUME IsInjective(Queue)
      PROVE  IsInjective(Tail(Queue)) /\ Head(Queue) \notin ToSet(Tail(Queue))
  BY <1>1, <1>4, InjectiveTail
<1> QED BY <1>1, <1>3, <1>4

(* update_interest_locked() keeps the types, and leaves the kernel's       *)
(* entries naming live states.                                             *)
LEMMA InterestUpdate ==
  ASSUME TypeOK, RefInv, NEW s \in States, NEW desired \in SUBSET Kinds,
         UpdateInterest(s, desired)
  PROVE  /\ registered' \in [States -> SUBSET Kinds]
         /\ registered'[s] = desired
         /\ \A t \in States \ {s} : registered'[t] = registered[t]
         /\ epoll' \in [Fds -> [state : States \cup {NoState}, events : SUBSET Kinds]]
         /\ \A f \in Fds : epoll'[f] # NoInterest => epoll'[f].state \in States
<1>1. CASE desired = registered[s]
  BY <1>1 DEF UpdateInterest, TypeOK, RefInv
<1>2. CASE desired # registered[s]
  <2>1. /\ registered' = [registered EXCEPT ![s] = desired]
        /\ epoll' = [epoll EXCEPT ![FdOf[s]] =
             IF desired = {} THEN NoInterest ELSE [state |-> s, events |-> desired]]
    BY <1>2 DEF UpdateInterest
  <2>2. NoInterest \in [state : States \cup {NoState}, events : SUBSET Kinds]
    BY DEF NoInterest
  <2>3. [state |-> s, events |-> desired] \in [state : States \cup {NoState}, events : SUBSET Kinds]
    OBVIOUS
  <2> HIDE DEF NoInterest
  <2> QED BY <2>1, <2>2, <2>3, ReactorAssumption DEF TypeOK, RefInv
<1> QED BY <1>1, <1>2

(* Completing some of a state's waits queues their coroutines, each once,  *)
(* and takes their operations out of the slots.                            *)
LEMMA Completion ==
  ASSUME ReactorInductive,
         NEW s \in States, NEW kinds \in SUBSET WaitedFor(s),
         NEW how \in {"ready", "cancelled", "error"},
         mutex[s] = NoCoro,
         Complete(s, kinds, how),
         UNCHANGED <<place, wait, op, handle, mutex, batch>>
  PROVE  /\ slot' \in [States -> [Kinds -> Ops \cup {NoOp}]]
         /\ result' \in [Ops -> {"pending", "ready", "cancelled", "error"}]
         /\ callback' \in [Coros -> Callbacks \cup {NoCallback}]
         /\ ready' \in Seq(Coros)
         /\ WaitedFor(s)' = WaitedFor(s) \ kinds
         /\ \A t \in States \ {s} : slot'[t] = slot[t]
         /\ OpInv' /\ SlotInv' /\ QueueInv' /\ HeldInv'
<1> DEFINE h(k) == handle[slot[s][k]]
           done == {slot[s][k] : k \in kinds}
<1> USE DEF ReactorInductive
<1>1. /\ slot' = [slot EXCEPT ![s] = [k \in Kinds |-> IF k \in kinds THEN NoOp ELSE @[k]]]
      /\ result' = [o \in Ops |-> IF o \in done THEN how ELSE result[o]]
      /\ callback' = [c \in Coros |-> IF op[c] \in done THEN NoCallback ELSE callback[c]]
  BY DEF Complete
<1>2. /\ slot' \in [States -> [Kinds -> Ops \cup {NoOp}]]
      /\ \A k \in Kinds : slot'[s][k] = IF k \in kinds THEN NoOp ELSE slot[s][k]
      /\ \A t \in States \ {s} : slot'[t] = slot[t]
  BY <1>1 DEF TypeOK
<1>3. /\ result' \in [Ops -> {"pending", "ready", "cancelled", "error"}]
      /\ \A o \in Ops \ done : result'[o] = result[o]
      /\ callback' \in [Coros -> Callbacks \cup {NoCallback}]
  BY <1>1 DEF TypeOK, RefInv
<1>4. ASSUME NEW k \in kinds
      PROVE  /\ k \in Kinds /\ slot[s][k] \in Ops
             /\ h(k) \in Coros /\ h(k) \notin ToSet(Queue)
             /\ op[h(k)] = slot[s][k] /\ result[slot[s][k]] = "pending"
             /\ wait[h(k)].state = s /\ wait[h(k)].kind = k
             /\ place[h(k)] = "waiting"
  <2>1. k \in Kinds /\ slot[s][k] # NoOp
    BY DEF WaitedFor
  <2>2. slot[s][k] \in Ops
    BY <2>1 DEF TypeOK
  <2>3. /\ h(k) \in Coros /\ h(k) \notin ToSet(Queue)
        /\ op[h(k)] = slot[s][k] /\ result[slot[s][k]] = "pending"
        /\ wait[h(k)].state = s /\ wait[h(k)].kind = k
        /\ place[h(k)] \in {"register", "deadlock", "waiting"}
    BY <2>1 DEF SlotInv
  <2>4. place[h(k)] = "waiting"
    BY <2>3, ReactorAssumption DEF OpInv
  <2> QED BY <2>1, <2>2, <2>3, <2>4
(* The queue after the reader and then the writer have been appended.      *)
<1> DEFINE A == IF "read" \in kinds THEN <<h("read")>> ELSE <<>>
           B == IF "write" \in kinds THEN <<h("write")>> ELSE <<>>
           HA == IF "read" \in kinds THEN {h("read")} ELSE {}
           HB == IF "write" \in kinds THEN {h("write")} ELSE {}
           some == {h(k) : k \in kinds}
<1>5. ready' = (ready \o A) \o B
  BY <1>4 DEF Complete
<1>6. /\ kinds \subseteq {"read", "write"}
      /\ "read" \in kinds /\ "write" \in kinds => h("read") # h("write")
  BY <1>4 DEF Kinds
<1>7. /\ ready' \in Seq(Coros) /\ IsInjective(Queue')
      /\ ToSet(Queue') = ToSet(Queue) \cup some
  <2>1. batch \in Seq(Coros) /\ ready \in Seq(Coros) /\ Queue \in Seq(Coros)
    BY DEF TypeOK, Queue
  <2>2. /\ A \in Seq(Coros) /\ Queue \o A \in Seq(Coros) /\ IsInjective(Queue \o A)
        /\ ToSet(Queue \o A) = ToSet(Queue) \cup HA
    <3>1. /\ (HA = {} /\ A = <<>>) \/ (\E c \in Coros : HA = {c} /\ A = <<c>>)
          /\ HA \cap ToSet(Queue) = {}
      BY <1>4
    <3> HIDE DEF Queue, A, HA
    <3>2. /\ A \in Seq(Coros) /\ Queue \o A \in Seq(Coros)
          /\ ToSet(Queue \o A) = ToSet(Queue) \cup HA
          /\ IsInjective(Queue) /\ HA \cap ToSet(Queue) = {} => IsInjective(Queue \o A)
      BY <2>1, <3>1, PushAtMostOne
    <3> QED BY <3>1, <3>2 DEF QueueInv
  <2>3. /\ B \in Seq(Coros) /\ IsInjective((Queue \o A) \o B)
        /\ ToSet((Queue \o A) \o B) = ToSet(Queue \o A) \cup HB
    <3>1. /\ (HB = {} /\ B = <<>>) \/ (\E c \in Coros : HB = {c} /\ B = <<c>>)
          /\ HB \cap ToSet(Queue) = {} /\ HB \cap HA = {}
      BY <1>4
    <3> HIDE DEF Queue, A, B, HA, HB
    <3>2. HB \cap ToSet(Queue \o A) = {}
      BY <2>2, <3>1
    <3> DEFINE R == Queue \o A
    <3>3. R \in Seq(Coros) /\ IsInjective(R) /\ HB \cap ToSet(R) = {}
      BY <2>2, <3>2
    <3> HIDE DEF R
    <3>4. /\ B \in Seq(Coros) /\ R \o B \in Seq(Coros)
          /\ ToSet(R \o B) = ToSet(R) \cup HB
          /\ IsInjective(R) /\ HB \cap ToSet(R) = {} => IsInjective(R \o B)
      BY <3>1, <3>3, PushAtMostOne
    <3> QED BY <3>3, <3>4 DEF R
  <2>4. /\ ready \o A \in Seq(Coros) /\ (ready \o A) \o B \in Seq(Coros)
        /\ batch \o ((ready \o A) \o B) = ((batch \o ready) \o A) \o B
    <3> HIDE DEF A, B
    <3>1. /\ batch \in Seq(Coros) /\ ready \in Seq(Coros) /\ A \in Seq(Coros)
          /\ B \in Seq(Coros)
      BY <2>1, <2>2, <2>3
    <3>2. ready \o A \in Seq(Coros)
      BY <3>1
    <3> QED BY <3>1
  <2>5. Queue' = (Queue \o A) \o B
    BY <1>5, <2>4 DEF Queue
  <2>6. some = HA \cup HB
    BY <1>6
  <2> HIDE DEF Queue, A, B, HA, HB, some, h
  <2> QED BY <1>5, <2>2, <2>3, <2>4, <2>5, <2>6
<1>8. \A c \in Coros : op[c] \in done => c \in some
  <2> SUFFICES ASSUME NEW c \in Coros, NEW k \in kinds, op[c] = slot[s][k]
               PROVE  c \in some
    OBVIOUS
  <2>1. op[c] = op[h(k)] /\ op[c] \in Ops /\ h(k) \in Coros
    BY <1>4
  <2>2. c = h(k)
    BY <2>1, ReactorAssumption DEF OpInv
  <2> QED BY <2>2
<1>9. \A c \in some : place[c] = "waiting" /\ op[c] \in done /\ c \in Coros
  BY <1>4
<1> HIDE DEF done, some, h, A, B, HA, HB, Queue
<1>10. WaitedFor(s)' = WaitedFor(s) \ kinds
  BY <1>2 DEF WaitedFor
<1>11. OpInv'
  <2>1. ASSUME NEW c \in Coros, place[c] = "arm" PROVE result'[op[c]] = "pending"
    <3>1. op[c] \in Ops /\ op[c] \notin done
      BY <1>8, <1>9, <2>1 DEF TypeOK, InAwaiter
    <3> QED BY <1>3, <2>1, <3>1 DEF OpInv
  <2> QED BY <2>1 DEF OpInv
<1>12. SlotInv'
  <2> SUFFICES ASSUME NEW t \in States, NEW k \in Kinds, slot'[t][k] # NoOp
               PROVE  LET c == handle[slot'[t][k]] IN
                      /\ c \in Coros /\ c \notin ToSet(Queue')
                      /\ op[c] = slot'[t][k] /\ result'[op[c]] = "pending"
                      /\ wait[c].state = t /\ wait[c].kind = k
                      /\ place[c] \in {"register", "deadlock", "waiting"}
    BY SMTT(60) DEF SlotInv
  <2>1. slot'[t][k] = slot[t][k] /\ slot[t][k] \in Ops /\ (t = s => k \notin kinds)
    BY <1>2
  <2> DEFINE c == handle[slot[t][k]]
  <2>2. /\ c \in Coros /\ c \notin ToSet(Queue)
        /\ op[c] = slot[t][k] /\ result[op[c]] = "pending"
        /\ wait[c].state = t /\ wait[c].kind = k
        /\ place[c] \in {"register", "deadlock", "waiting"}
    BY <2>1 DEF SlotInv
  <2>3. c \notin some
    BY <1>4, <2>1, <2>2 DEF some
  <2>4. op[c] \notin done
    BY <1>8, <2>2, <2>3
  <2> QED BY <1>3, <1>7, <2>1, <2>2, <2>3, <2>4
<1>13. QueueInv'
  BY <1>7, <1>9 DEF QueueInv
<1>14. HeldInv'
  <2> SUFFICES ASSUME NEW c \in Coros, place[c] \in {"register", "deadlock", "waiting"}
               PROVE  c \in ToSet(Queue') \/ slot'[wait[c].state][wait[c].kind] = op[c]
    BY DEF HeldInv
  <2>1. wait[c].state \in States /\ wait[c].kind \in Kinds
    BY DEF OpInv, TypeOK, InAwaiter
  <2>2. c \in ToSet(Queue) \/ slot[wait[c].state][wait[c].kind] = op[c]
    BY DEF HeldInv
  <2>3. CASE wait[c].state = s /\ wait[c].kind \in kinds /\ slot[s][wait[c].kind] = op[c]
    BY <1>7, <1>8, <2>3 DEF done
  <2>4. CASE ~(wait[c].state = s /\ wait[c].kind \in kinds)
    BY <1>2, <1>7, <2>1, <2>2, <2>4
  <2> QED BY <1>7, <2>2, <2>3, <2>4
<1> QED BY <1>2, <1>3, <1>7, <1>10, <1>11, <1>12, <1>13, <1>14

(* A step that touches no wait and no slot, and leaves the queue alone,    *)
(* leaves the parts of the invariant about them alone too.                 *)
LEMMA NothingMoves ==
  ASSUME OpInv, SlotInv, QueueInv, HeldInv, ClosedMeansNobodyWaits, Queue' = Queue,
         UNCHANGED <<place, wait, op, handle, result, slot, closing, registered, mutex>>
  PROVE  OpInv' /\ SlotInv' /\ QueueInv' /\ HeldInv' /\ ClosedMeansNobodyWaits'
<1>1. OpInv'
  BY DEF OpInv
<1>2. SlotInv'
  BY DEF SlotInv
<1>3. QueueInv' /\ HeldInv'
  BY DEF QueueInv, HeldInv
<1>4. ClosedMeansNobodyWaits'
  BY DEF ClosedMeansNobodyWaits, WaitedFor
<1> QED BY <1>1, <1>2, <1>3, <1>4

-----------------------------------------------------------------------------
(* The invariant is inductive.                                             *)
LEMMA InvariantStep ==
  ASSUME ReactorInductive, [Next]_vars
  PROVE  ReactorInductive'
<1> USE DEF ReactorInductive, Move, waitVars, stateVars, loopVars, cancelVars
<1>0. ToSet(Queue) \subseteq Coros
  BY ToSetConcat, ToSetType DEF Queue, TypeOK
<1>1. ASSUME NEW c \in Coros, NEW s \in States, NEW k \in Kinds, NEW tok \in BOOLEAN,
             NEW o \in Ops,
             WaitFor(c, s, k, tok, o)
      PROVE  ReactorInductive'
  <2>0. /\ op[c] = NoOp /\ place[c] \in {"away", "running"}
        /\ \A d \in Coros : op[d] # o
        /\ op' = [op EXCEPT ![c] = o]
        /\ result' = [result EXCEPT ![o] = "pending"]
        /\ handle' = [handle EXCEPT ![o] = NoCoro]
        /\ wait' = [wait EXCEPT ![c] = [state |-> s, kind |-> k, token |-> tok]]
        /\ place' = [place EXCEPT ![c] = "arm"]
        /\ UNCHANGED <<slot, closing, registered, mutex, epoll, ready, lpc,
             events, batch, current, requested, callback, kpc, kcb>>
    <3>1. op[c] = NoOp /\ place[c] \in {"away", "running"}
      BY <1>1 DEF WaitFor, Runs, TypeOK, InAwaiter
    <3> QED BY <1>1, <3>1 DEF WaitFor
  <2>1. Queue' = Queue
    BY <2>0 DEF Queue
  <2>2. TypeOK'
    BY <2>0 DEF TypeOK, InAwaiter, Places
  <2>3. RefInv'
    BY <2>0 DEF RefInv
  <2>4. OpInv'
    BY <2>0 DEF OpInv, TypeOK
  <2>5. SlotInv'
    <3>1. ASSUME NEW t \in States, NEW j \in Kinds, slot[t][j] # NoOp, NEW d,
                 d = handle[slot[t][j]]
          PROVE  /\ d \in Coros /\ d \notin ToSet(Queue) /\ op[d] = slot[t][j]
                 /\ result[op[d]] = "pending" /\ wait[d].state = t /\ wait[d].kind = j
                 /\ place[d] \in {"register", "deadlock", "waiting"}
                 /\ d # c /\ op[d] # o
      <4>1. /\ d \in Coros /\ d \notin ToSet(Queue) /\ op[d] = slot[t][j]
            /\ result[op[d]] = "pending" /\ wait[d].state = t /\ wait[d].kind = j
            /\ place[d] \in {"register", "deadlock", "waiting"}
        BY <3>1 DEF SlotInv
      <4> QED BY <2>0, <3>1, <4>1
    <3>2. ASSUME NEW t \in States, NEW j \in Kinds, slot'[t][j] # NoOp, NEW d,
                 d = handle'[slot'[t][j]]
          PROVE  /\ d \in Coros /\ d \notin ToSet(Queue') /\ op'[d] = slot'[t][j]
                 /\ result'[op'[d]] = "pending" /\ wait'[d].state = t /\ wait'[d].kind = j
                 /\ place'[d] \in {"register", "deadlock", "waiting"}
      <4>1. PICK e : e = handle[slot[t][j]]
        OBVIOUS
      <4>2. /\ e \in Coros /\ e \notin ToSet(Queue) /\ op[e] = slot[t][j]
            /\ result[op[e]] = "pending" /\ wait[e].state = t /\ wait[e].kind = j
            /\ place[e] \in {"register", "deadlock", "waiting"}
            /\ e # c /\ op[e] # o
        BY <2>0, <3>1, <3>2, <4>1
      <4>3. slot[t][j] \in Ops /\ d = e
        BY <2>0, <3>2, <4>1, <4>2 DEF TypeOK
      <4> QED BY <2>0, <2>1, <4>2, <4>3 DEF TypeOK
    <3> QED BY <3>2 DEF SlotInv
  <2>6. QueueInv'
    BY <2>0, <2>1 DEF QueueInv
  <2>7. HeldInv'
    BY <2>0, <2>1 DEF HeldInv
  <2>8. ClosedMeansNobodyWaits'
    BY <2>0 DEF ClosedMeansNobodyWaits, WaitedFor
  <2> QED BY <2>2, <2>3, <2>4, <2>5, <2>6, <2>7, <2>8 DEF ReactorInductive
<1>2. ASSUME NEW c \in Coros, ArmRefused(c)
      PROVE  ReactorInductive'
  <2>0. /\ place[c] = "arm" /\ op[c] # NoOp
        /\ place'[c] \in {"away", "running"} /\ place' = [place EXCEPT ![c] = place'[c]]
        /\ wait' = [wait EXCEPT ![c] = NoWait]
        /\ op' = [op EXCEPT ![c] = NoOp]
        /\ UNCHANGED <<handle, result, slot, closing, registered, mutex,
             epoll, ready, lpc, events, batch, current, requested, callback,
             kpc, kcb>>
    BY <1>2 DEF ArmRefused, Home, TypeOK, InAwaiter
  <2>1. Queue' = Queue
    BY <2>0 DEF Queue
  <2>2. TypeOK'
    <3>1. /\ place' \in [Coros -> Places]
          /\ op' \in [Coros -> Ops \cup {NoOp}]
      <4>1. place \in [Coros -> Places] /\ op \in [Coros -> Ops \cup {NoOp}]
        BY DEF TypeOK
      <4>2. {"away", "running"} \subseteq Places
        BY DEF Places
      <4> QED BY <2>0, <4>1, <4>2
    <3>3. wait' \in [Coros -> [state : States \cup {NoState}, kind : Kinds, token : BOOLEAN]]
      <4>1. /\ wait \in [Coros -> [state : States \cup {NoState}, kind : Kinds, token : BOOLEAN]]
            /\ NoWait \in [state : States \cup {NoState}, kind : Kinds, token : BOOLEAN]
        BY DEF TypeOK, NoWait, Kinds
      <4> QED BY <2>0, <4>1
    <3>2. \A d \in Coros : op'[d] # NoOp <=> place'[d] \in InAwaiter
      BY <2>0 DEF TypeOK, InAwaiter
    <3> QED BY <2>0, <3>1, <3>2, <3>3 DEF TypeOK
  <2>3. RefInv'
    BY <2>0 DEF RefInv
  <2>4. OpInv'
    BY <2>0 DEF OpInv, TypeOK
  <2>5. SlotInv'
    <3>1. \A d \in Coros \ {c} : op'[d] = op[d] /\ wait'[d] = wait[d] /\ place'[d] = place[d]
      BY <2>0 DEF TypeOK
    <3>2. place[c] = "arm" /\ UNCHANGED <<handle, result, slot>>
      BY <2>0
    <3> QED BY <2>1, <3>1, <3>2 DEF SlotInv
  <2>6. QueueInv'
    BY <1>0, <2>0, <2>1 DEF QueueInv, TypeOK
  <2>7. HeldInv'
    BY <2>0, <2>1 DEF HeldInv, TypeOK
  <2>8. ClosedMeansNobodyWaits'
    BY <2>0 DEF ClosedMeansNobodyWaits, WaitedFor
  <2> QED BY <2>2, <2>3, <2>4, <2>5, <2>6, <2>7, <2>8 DEF ReactorInductive
<1>3. ASSUME NEW c \in Coros, ArmWait(c)
      PROVE  ReactorInductive'
  <2>0. /\ place[c] = "arm" /\ op[c] \in Ops /\ wait[c].state \in States
        /\ wait[c].kind \in Kinds
        /\ mutex[wait[c].state] = NoCoro /\ ~closing[wait[c].state]
        /\ slot[wait[c].state][wait[c].kind] = NoOp
        /\ handle' = [handle EXCEPT ![op[c]] = c]
        /\ slot' = [slot EXCEPT ![wait[c].state][wait[c].kind] = op[c]]
        /\ registered' \in [States -> SUBSET Kinds]
        /\ \A s \in States \ {wait[c].state} : registered'[s] = registered[s]
        /\ epoll' \in [Fds -> [state : States \cup {NoState}, events : SUBSET Kinds]]
        /\ \A f \in Fds : epoll'[f] \in {epoll[f], NoInterest} \/ epoll'[f].state \in States
        /\ place' = [place EXCEPT ![c] = IF wait[c].token THEN "register" ELSE "waiting"]
        /\ mutex' = IF wait[c].token THEN [mutex EXCEPT ![wait[c].state] = c] ELSE mutex
        /\ lpc' \in {lpc, "resume"} /\ current' \in {current, NoCoro}
        /\ UNCHANGED <<wait, op, result, closing, ready, events, batch,
             requested, callback, kpc, kcb>>
    <3> DEFINE s == wait[c].state
               k == wait[c].kind
    <3>1. op[c] \in Ops /\ s \in States /\ k \in Kinds
      BY <1>3 DEF ArmWait, TypeOK, InAwaiter, OpInv
    <3>2. UpdateInterest(s, WaitedFor(s) \cup {k}) /\ WaitedFor(s) \cup {k} \in SUBSET Kinds
      BY <1>3, <3>1 DEF ArmWait, WaitedFor
    <3>3. /\ registered' \in [States -> SUBSET Kinds]
          /\ \A t \in States \ {s} : registered'[t] = registered[t]
          /\ epoll' \in [Fds -> [state : States \cup {NoState}, events : SUBSET Kinds]]
          /\ \A f \in Fds : epoll'[f] # NoInterest => epoll'[f].state \in States
      <4> HIDE DEF s, k
      <4> QED BY <3>1, <3>2, InterestUpdate
    <3>4. /\ place[c] = "arm" /\ mutex[s] = NoCoro /\ ~closing[s] /\ slot[s][k] = NoOp
          /\ handle' = [handle EXCEPT ![op[c]] = c]
          /\ slot' = [slot EXCEPT ![s][k] = op[c]]
      BY <1>3 DEF ArmWait
    <3>5. /\ place' = [place EXCEPT ![c] = IF wait[c].token THEN "register" ELSE "waiting"]
          /\ mutex' = IF wait[c].token THEN [mutex EXCEPT ![s] = c] ELSE mutex
      BY <1>3 DEF ArmWait
    <3>6. /\ lpc' \in {lpc, "resume"} /\ current' \in {current, NoCoro}
          /\ events' = events /\ batch' = batch
      BY <1>3 DEF ArmWait, LeavesLoop
    <3>7. UNCHANGED <<wait, op, result, closing, ready, requested, callback, kpc, kcb>>
      BY <1>3 DEF ArmWait
    <3> QED BY <3>1, <3>3, <3>4, <3>5, <3>6, <3>7
  <2>1. Queue' = Queue
    BY <2>0 DEF Queue
  <2>2. TypeOK'
    <3>0. place' \in [Coros -> Places]
      BY <2>0 DEF TypeOK, Places
    <3>1. handle' \in [Ops -> Coros \cup {NoCoro}]
      BY <2>0 DEF TypeOK
    <3>2. \A d \in Coros : op'[d] # NoOp <=> place'[d] \in InAwaiter
      BY <2>0 DEF TypeOK, InAwaiter
    <3>3. slot' \in [States -> [Kinds -> Ops \cup {NoOp}]]
      BY <2>0 DEF TypeOK
    <3>4. mutex' \in [States -> Coros \cup {NoCoro}]
      BY <2>0 DEF TypeOK
    <3>5. /\ lpc' \in {"poll", "dispatch", "resume", "running"}
          /\ current' \in Coros \cup {NoCoro}
      BY <2>0 DEF TypeOK
    <3> QED BY <2>0, <3>0, <3>2 DEF TypeOK
  <2>3. RefInv'
    BY <2>0 DEF RefInv
  <2>4. OpInv'
    BY ReactorAssumption, <2>0 DEF OpInv, TypeOK
  <2>5. SlotInv'
    <3> DEFINE s == wait[c].state
               k == wait[c].kind
    <3>1. /\ s \in States /\ k \in Kinds /\ op[c] \in Ops /\ place[c] = "arm"
          /\ handle' = [handle EXCEPT ![op[c]] = c]
          /\ slot' = [slot EXCEPT ![s][k] = op[c]]
          /\ UNCHANGED <<wait, op, result>>
      BY <2>0
    <3>2. \A d \in Coros \ {c} : place'[d] = place[d] /\ op[d] # op[c]
      BY <2>0, ReactorAssumption DEF OpInv
    <3>3. place'[c] \in {"register", "waiting"}
      BY <2>0 DEF TypeOK
    <3>4. c \notin ToSet(Queue')
      BY <2>1, <3>1 DEF QueueInv
    <3>5. result[op[c]] = "pending" /\ handle'[op[c]] = c
      BY <3>1 DEF OpInv, TypeOK
    <3>6. slot'[s][k] = op[c]
      BY <3>1 DEF TypeOK
    <3>x. ASSUME NEW t \in States, NEW m \in Kinds, slot'[t][m] # NoOp, t # s \/ m # k
          PROVE  LET d == handle'[slot'[t][m]] IN
                 /\ d \in Coros /\ d \notin ToSet(Queue')
                 /\ op'[d] = slot'[t][m] /\ result'[op'[d]] = "pending"
                 /\ wait'[d].state = t /\ wait'[d].kind = m
                 /\ place'[d] \in {"register", "deadlock", "waiting"}
      <4>1. slot'[t][m] = slot[t][m] /\ slot[t][m] \in Ops
        BY <3>1, <3>x DEF TypeOK
      <4> DEFINE d == handle[slot[t][m]]
      <4>2. /\ d \in Coros /\ d \notin ToSet(Queue)
            /\ op[d] = slot[t][m] /\ result[op[d]] = "pending"
            /\ wait[d].state = t /\ wait[d].kind = m
            /\ place[d] \in {"register", "deadlock", "waiting"}
        BY <4>1, ReactorAssumption DEF SlotInv
      <4>3. d # c /\ slot[t][m] # op[c]
        BY <3>1, <3>2, <4>2
      <4>4. handle'[slot[t][m]] = d
        BY <3>1, <4>3
      <4> QED BY <2>1, <3>1, <3>2, <4>1, <4>2, <4>4
    <3>y. /\ handle'[slot'[s][k]] = c /\ op'[c] = slot'[s][k] /\ result'[op'[c]] = "pending"
          /\ wait'[c].state = s /\ wait'[c].kind = k
      BY <3>1, <3>5, <3>6
    <3>z. ASSUME NEW t \in States, NEW m \in Kinds, slot'[t][m] # NoOp
          PROVE  LET d == handle'[slot'[t][m]] IN
                 /\ d \in Coros /\ d \notin ToSet(Queue')
                 /\ op'[d] = slot'[t][m] /\ result'[op'[d]] = "pending"
                 /\ wait'[d].state = t /\ wait'[d].kind = m
                 /\ place'[d] \in {"register", "deadlock", "waiting"}
      <4>1. CASE t # s \/ m # k
        BY <3>x, <3>z, <4>1
      <4>2. CASE t = s /\ m = k
        BY <3>3, <3>4, <3>y, <4>2
      <4> QED BY <4>1, <4>2
    <3> QED BY <3>z DEF SlotInv
  <2>6. QueueInv'
    BY <2>0, <2>1 DEF QueueInv
  <2>7. HeldInv'
    BY <2>0, <2>1 DEF HeldInv, TypeOK, InAwaiter
  <2>8. ClosedMeansNobodyWaits'
    BY <2>0 DEF ClosedMeansNobodyWaits, WaitedFor
  <2> QED BY <2>2, <2>3, <2>4, <2>5, <2>6, <2>7, <2>8 DEF ReactorInductive
<1>4. ASSUME NEW c \in Coros, Register(c), requested[c]
      PROVE  ReactorInductive'
  <2>0. /\ place[c] = "register" /\ place' = [place EXCEPT ![c] = "deadlock"]
        /\ UNCHANGED <<wait, op, handle, result, slot, closing, registered,
             mutex, epoll, ready, lpc, events, batch, current, requested,
             callback, kpc, kcb>>
    BY <1>4 DEF Register
  <2>1. Queue' = Queue
    BY <2>0 DEF Queue
  <2>2. TypeOK'
    BY <2>0 DEF TypeOK, InAwaiter, Places
  <2>3. RefInv' /\ ClosedMeansNobodyWaits'
    BY <2>0 DEF RefInv, ClosedMeansNobodyWaits, WaitedFor
  <2>4. OpInv'
    BY <2>0 DEF OpInv
  <2>5. SlotInv'
    BY <2>0, <2>1 DEF SlotInv
  <2>6. QueueInv'
    BY <2>0, <2>1 DEF QueueInv
  <2>7. HeldInv'
    BY <2>0, <2>1 DEF HeldInv
  <2> QED BY <2>2, <2>3, <2>4, <2>5, <2>6, <2>7 DEF ReactorInductive
<1>5. ASSUME NEW c \in Coros, Register(c), ~requested[c]
      PROVE  ReactorInductive'
  <2>0. /\ place[c] = "register" /\ op[c] \in Ops /\ wait[c].state \in States
        /\ wait[c].kind \in Kinds
        /\ place' = [place EXCEPT ![c] = "waiting"]
        /\ mutex[wait[c].state] = c /\ mutex' = [mutex EXCEPT ![wait[c].state] = NoCoro]
       
        /\ callback' = [callback EXCEPT ![c] = [state |-> wait[c].state, kind |-> wait[c].kind, op |-> op[c]]]
        /\ lpc' \in {lpc, "resume"} /\ current' \in {current, NoCoro}
        /\ UNCHANGED <<wait, op, handle, result, slot, closing, registered,
             epoll, ready, events, batch, requested, kpc, kcb>>
    BY <1>5 DEF Register, TypeOK, InAwaiter, OpInv, LeavesLoop
  <2>1. Queue' = Queue
    BY <2>0 DEF Queue
  <2>2. TypeOK'
    BY <2>0 DEF TypeOK, InAwaiter, Places
  <2>3. RefInv'
    BY <2>0 DEF RefInv, Callbacks
  <2>4. OpInv'
    BY <2>0 DEF OpInv, TypeOK
  <2>5. SlotInv'
    BY <2>0, <2>1, SMTT(60) DEF SlotInv
  <2>6. QueueInv'
    BY <2>0, <2>1 DEF QueueInv
  <2>7. HeldInv'
    BY <2>0, <2>1 DEF HeldInv
  <2>8. ClosedMeansNobodyWaits'
    BY <2>0 DEF ClosedMeansNobodyWaits, WaitedFor
  <2> QED BY <2>2, <2>3, <2>4, <2>5, <2>6, <2>7, <2>8 DEF ReactorInductive
<1>6. ASSUME NEW c \in Coros, LeaveLoop(c)
      PROVE  ReactorInductive'
  <2>0. /\ place[c] = "running" /\ place' = [place EXCEPT ![c] = "away"]
        /\ lpc' \in {lpc, "resume"} /\ current' \in {current, NoCoro}
        /\ UNCHANGED <<wait, op, handle, result, slot, closing, registered,
             mutex, epoll, ready, events, batch, requested, callback, kpc,
             kcb>>
    BY <1>6 DEF LeaveLoop, LeavesLoop
  <2>1. Queue' = Queue
    BY <2>0 DEF Queue
  <2>2. TypeOK'
    BY <2>0 DEF TypeOK, InAwaiter, Places
  <2>3. RefInv'
    BY <2>0 DEF RefInv
  <2>4. OpInv'
    BY <2>0 DEF OpInv
  <2>5. SlotInv'
    BY <2>0, <2>1 DEF SlotInv
  <2>6. QueueInv'
    BY <2>0, <2>1 DEF QueueInv
  <2>7. HeldInv'
    BY <2>0, <2>1 DEF HeldInv
  <2>8. ClosedMeansNobodyWaits'
    BY <2>0 DEF ClosedMeansNobodyWaits, WaitedFor
  <2> QED BY <2>2, <2>3, <2>4, <2>5, <2>6, <2>7, <2>8 DEF ReactorInductive
<1>7. ASSUME PollOnce
      PROVE  ReactorInductive'
  <2>0. /\ lpc = "poll" /\ lpc' = "dispatch"
        /\ events' \subseteq [state : States, kinds : SUBSET Kinds]
        /\ UNCHANGED <<place, wait, op, handle, result, slot, closing,
             registered, mutex, epoll, ready, batch, current, requested,
             callback, kpc, kcb>>
    <3>1. PICK some \in SUBSET {f \in Fds : epoll[f] # NoInterest} :
            \E report \in [some -> SUBSET Kinds] :
              events' = {[state |-> epoll[f].state, kinds |-> report[f]] : f \in some}
      BY <1>7 DEF PollOnce
    <3>2. PICK report \in [some -> SUBSET Kinds] :
            events' = {[state |-> epoll[f].state, kinds |-> report[f]] : f \in some}
      BY <3>1
    <3>3. \A f \in some : epoll[f].state \in States
      BY DEF RefInv
    <3> QED BY <1>7, <3>2, <3>3 DEF PollOnce
  <2>1. Queue' = Queue
    BY <2>0 DEF Queue
  <2>2. TypeOK'
    BY <2>0 DEF TypeOK
  <2>3. RefInv'
    BY <2>0 DEF RefInv
  <2>4. OpInv' /\ SlotInv' /\ QueueInv' /\ HeldInv' /\ ClosedMeansNobodyWaits'
    BY <2>0, <2>1, NothingMoves
  <2> QED BY <2>2, <2>3, <2>4 DEF ReactorInductive
<1>8. ASSUME Dispatch
      PROVE  ReactorInductive'
  <2>1. PICK e \in events :
          /\ mutex[e.state] = NoCoro
          /\ events' = events \ {e}
          /\ IF closing[e.state]
               THEN UNCHANGED <<slot, result, callback, ready, registered, epoll>>
               ELSE /\ Complete(e.state, e.kinds \cap WaitedFor(e.state), "ready")
                    /\ UpdateInterest(e.state, WaitedFor(e.state) \ e.kinds)
    BY <1>8 DEF Dispatch
  <2>2. /\ lpc = "dispatch"
        /\ UNCHANGED <<place, wait, op, handle, closing, mutex, lpc, batch, current,
                       requested, kpc, kcb>>
    BY <1>8 DEF Dispatch
  <2>3. e.state \in States /\ events' \subseteq [state : States, kinds : SUBSET Kinds]
    BY <2>1 DEF TypeOK
  <2>4. CASE closing[e.state]
    <3>1. UNCHANGED <<slot, result, callback, ready, registered, epoll>>
      BY <2>1, <2>4
    <3>2. Queue' = Queue
      BY <2>2, <3>1 DEF Queue
    <3>3. TypeOK'
      BY <2>2, <2>3, <3>1 DEF TypeOK
    <3>4. RefInv'
      BY <2>2, <3>1 DEF RefInv
    <3>5. OpInv' /\ SlotInv' /\ QueueInv' /\ HeldInv' /\ ClosedMeansNobodyWaits'
      BY <2>2, <3>1, <3>2, NothingMoves
    <3> QED BY <3>3, <3>4, <3>5
  <2>5. CASE ~closing[e.state]
    <3> DEFINE s == e.state
               kinds == e.kinds \cap WaitedFor(s)
    <3>1. Complete(s, kinds, "ready") /\ UpdateInterest(s, WaitedFor(s) \ e.kinds)
      BY <2>1, <2>5
    <3>2. /\ s \in States /\ kinds \in SUBSET WaitedFor(s)
          /\ WaitedFor(s) \ e.kinds \in SUBSET Kinds
      BY <2>3 DEF WaitedFor
    <3>3. mutex[s] = NoCoro
      BY <2>1
    <3>4. UNCHANGED <<place, wait, op, handle, mutex, batch>>
      BY <2>2
    <3> HIDE DEF s, kinds
    <3>5. /\ slot' \in [States -> [Kinds -> Ops \cup {NoOp}]]
          /\ result' \in [Ops -> {"pending", "ready", "cancelled", "error"}]
          /\ callback' \in [Coros -> Callbacks \cup {NoCallback}]
          /\ ready' \in Seq(Coros)
          /\ \A t \in States \ {s} : slot'[t] = slot[t]
          /\ OpInv' /\ SlotInv' /\ QueueInv' /\ HeldInv'
      BY <3>1, <3>2, <3>3, <3>4, Completion
    <3>6. /\ registered' \in [States -> SUBSET Kinds]
          /\ \A t \in States \ {s} : registered'[t] = registered[t]
          /\ epoll' \in [Fds -> [state : States \cup {NoState}, events : SUBSET Kinds]]
          /\ \A f \in Fds : epoll'[f] # NoInterest => epoll'[f].state \in States
      BY <3>1, <3>2, InterestUpdate
    <3>7. TypeOK'
      BY <2>2, <2>3, <3>5, <3>6 DEF TypeOK
    <3>8. RefInv'
      BY <2>2, <3>5, <3>6 DEF RefInv
    <3>9. ClosedMeansNobodyWaits'
      BY <2>2, <2>5, <3>5, <3>6 DEF ClosedMeansNobodyWaits, WaitedFor, s
    <3> QED BY <3>5, <3>7, <3>8, <3>9
  <2> QED BY <2>4, <2>5
<1>9. ASSUME DispatchDone
      PROVE  ReactorInductive'
  <2>0. /\ lpc = "dispatch" /\ lpc' = "resume" /\ batch = <<>>
        /\ batch' = ready /\ ready' = <<>>
        /\ UNCHANGED <<place, wait, op, handle, result, slot, closing,
             registered, mutex, epoll, events, current, requested, callback,
             kpc, kcb>>
    BY <1>9 DEF DispatchDone, RefInv
  <2>1. Queue' = Queue
    BY <2>0 DEF Queue
  <2>2. TypeOK'
    BY <2>0 DEF TypeOK
  <2>3. RefInv'
    BY <2>0 DEF RefInv
  <2>4. OpInv' /\ ClosedMeansNobodyWaits'
    BY <2>0 DEF OpInv, ClosedMeansNobodyWaits, WaitedFor
  <2>5. SlotInv'
    BY <2>0, <2>1 DEF SlotInv
  <2>6. QueueInv'
    BY <2>0, <2>1 DEF QueueInv
  <2>7. HeldInv'
    BY <2>0, <2>1 DEF HeldInv
  <2> QED BY <2>2, <2>3, <2>4, <2>5, <2>6, <2>7 DEF ReactorInductive
<1>10. ASSUME ResumeNext
      PROVE  ReactorInductive'
  <2>0. /\ lpc = "resume" /\ batch # <<>> /\ Head(batch) \in Coros
        /\ Tail(batch) \in Seq(Coros)
        /\ current' = Head(batch) /\ batch' = Tail(batch) /\ lpc' = "running"
        /\ place' = [place EXCEPT ![Head(batch)] = "running"]
        /\ wait' = [wait EXCEPT ![Head(batch)] = NoWait]
        /\ op' = [op EXCEPT ![Head(batch)] = NoOp]
        /\ UNCHANGED <<handle, result, slot, closing, registered, mutex,
             epoll, ready, events, requested, callback, kpc, kcb>>
    BY <1>10 DEF ResumeNext, TypeOK
  <2>1. /\ ToSet(Queue) = ToSet(Queue') \cup {Head(batch)}
        /\ IsInjective(Queue') /\ Head(batch) \notin ToSet(Queue')
    BY <2>0, QueuePop DEF TypeOK, QueueInv
  <2>2. TypeOK'
    <3>1. /\ place' \in [Coros -> Places]
         
          /\ wait' \in [Coros -> [state : States \cup {NoState}, kind : Kinds, token : BOOLEAN]]
          /\ op' \in [Coros -> Ops \cup {NoOp}]
      BY <2>0 DEF TypeOK, Places, NoWait, Kinds
    <3>2. \A d \in Coros : op'[d] # NoOp <=> place'[d] \in InAwaiter
      BY <2>0 DEF TypeOK, InAwaiter
    <3>3. /\ batch' \in Seq(Coros) /\ current' \in Coros \cup {NoCoro}
          /\ lpc' \in {"poll", "dispatch", "resume", "running"}
      BY <2>0
    <3> QED BY <2>0, <3>1, <3>2 DEF TypeOK
  <2>3. RefInv'
    BY <2>0 DEF RefInv
  <2>4. OpInv'
    BY <2>0 DEF OpInv, TypeOK
  <2>5. SlotInv'
    BY <2>0, <2>1 DEF SlotInv
  <2>6. QueueInv'
    BY <2>0, <2>1 DEF QueueInv
  <2>7. HeldInv'
    BY <2>0, <2>1 DEF HeldInv, TypeOK
  <2>8. ClosedMeansNobodyWaits'
    BY <2>0 DEF ClosedMeansNobodyWaits, WaitedFor
  <2> QED BY <2>2, <2>3, <2>4, <2>5, <2>6, <2>7, <2>8 DEF ReactorInductive
<1>11. ASSUME DrainDone
      PROVE  ReactorInductive'
  <2>0. /\ lpc = "resume" /\ batch = <<>> /\ lpc' = "poll"
        /\ UNCHANGED <<place, wait, op, handle, result, slot, closing,
             registered, mutex, epoll, ready, events, batch, current,
             requested, callback, kpc, kcb>>
    BY <1>11 DEF DrainDone
  <2>1. Queue' = Queue
    BY <2>0 DEF Queue
  <2>2. TypeOK'
    BY <2>0 DEF TypeOK
  <2>3. RefInv'
    BY <2>0 DEF RefInv
  <2>4. OpInv' /\ SlotInv' /\ QueueInv' /\ HeldInv' /\ ClosedMeansNobodyWaits'
    BY <2>0, <2>1, NothingMoves
  <2> QED BY <2>2, <2>3, <2>4 DEF ReactorInductive
<1>12. ASSUME NEW s \in States, Unregister(s)
      PROVE  ReactorInductive'
  <2>1. /\ mutex[s] = NoCoro /\ closing' = [closing EXCEPT ![s] = TRUE]
        /\ Complete(s, WaitedFor(s), "error") /\ UpdateInterest(s, {})
        /\ UNCHANGED <<place, wait, op, handle, mutex, lpc, events, batch, current,
                       requested, kpc, kcb>>
    BY <1>12 DEF Unregister
  <2>2. /\ slot' \in [States -> [Kinds -> Ops \cup {NoOp}]]
        /\ result' \in [Ops -> {"pending", "ready", "cancelled", "error"}]
        /\ callback' \in [Coros -> Callbacks \cup {NoCallback}]
        /\ ready' \in Seq(Coros)
        /\ WaitedFor(s)' = {}
        /\ \A t \in States \ {s} : slot'[t] = slot[t]
        /\ OpInv' /\ SlotInv' /\ QueueInv' /\ HeldInv'
    BY <2>1, Completion
  <2>3. /\ registered' \in [States -> SUBSET Kinds]
        /\ registered'[s] = {}
        /\ \A t \in States \ {s} : registered'[t] = registered[t]
        /\ epoll' \in [Fds -> [state : States \cup {NoState}, events : SUBSET Kinds]]
        /\ \A f \in Fds : epoll'[f] # NoInterest => epoll'[f].state \in States
    BY <2>1, InterestUpdate
  <2>4. TypeOK'
    BY <2>1, <2>2, <2>3 DEF TypeOK
  <2>5. RefInv'
    BY <2>1, <2>2, <2>3 DEF RefInv
  <2>6. ClosedMeansNobodyWaits'
    <3>1. \A t \in States \ {s} : closing'[t] = closing[t] /\ WaitedFor(t)' = WaitedFor(t)
      BY <2>1, <2>2 DEF WaitedFor
    <3> QED BY <2>2, <2>3, <3>1 DEF ClosedMeansNobodyWaits
  <2> QED BY <2>2, <2>4, <2>5, <2>6
<1>13. ASSUME NEW c \in Coros, RequestCancellation(c)
      PROVE  ReactorInductive'
  <2>0. /\ kpc' = [kpc EXCEPT ![c] = "swap"] /\ requested' = [requested EXCEPT ![c] = TRUE]
        /\ UNCHANGED <<place, wait, op, handle, result, slot, closing,
             registered, mutex, epoll, ready, lpc, events, batch, current,
             callback, kcb>>
    BY <1>13 DEF RequestCancellation
  <2>1. Queue' = Queue
    BY <2>0 DEF Queue
  <2>2. TypeOK'
    BY <2>0 DEF TypeOK
  <2>3. RefInv'
    BY <2>0 DEF RefInv
  <2>4. OpInv' /\ SlotInv' /\ QueueInv' /\ HeldInv' /\ ClosedMeansNobodyWaits'
    BY <2>0, <2>1, NothingMoves
  <2> QED BY <2>2, <2>3, <2>4 DEF ReactorInductive
<1>14. ASSUME NEW c \in Coros, SwapCallbacks(c)
      PROVE  ReactorInductive'
  <2>0. /\ kcb' = [kcb EXCEPT ![c] = callback[c]]
        /\ callback' = [callback EXCEPT ![c] = NoCallback]
        /\ kpc' = [kpc EXCEPT ![c] = IF callback[c] = NoCallback THEN "done" ELSE "call"]
        /\ UNCHANGED <<place, wait, op, handle, result, slot, closing,
             registered, mutex, epoll, ready, lpc, events, batch, current,
             requested>>
    BY <1>14 DEF SwapCallbacks
  <2>1. Queue' = Queue
    BY <2>0 DEF Queue
  <2>2. TypeOK'
    BY <2>0 DEF TypeOK
  <2>3. RefInv'
    BY <2>0 DEF RefInv, TypeOK
  <2>4. OpInv' /\ SlotInv' /\ QueueInv' /\ HeldInv' /\ ClosedMeansNobodyWaits'
    BY <2>0, <2>1, NothingMoves
  <2> QED BY <2>2, <2>3, <2>4 DEF ReactorInductive
<1>15. ASSUME NEW c \in Coros, CancelWait(c)
      PROVE  ReactorInductive'
  <2>1. PICK s \in States, k \in Kinds :
          s = kcb[c].state /\ k = kcb[c].kind /\ kcb[c].op \in Ops
    BY <1>15 DEF CancelWait, RefInv, Callbacks
  <2>2. /\ mutex[s] = NoCoro
        /\ kpc' = [kpc EXCEPT ![c] = "done"] /\ kcb' = [kcb EXCEPT ![c] = NoCallback]
        /\ UNCHANGED <<place, wait, op, handle, closing, mutex, lpc, events, batch,
                       current, requested>>
    BY <1>15, <2>1 DEF CancelWait
  <2>3. CASE slot[s][k] # kcb[c].op
    <3>1. UNCHANGED <<slot, result, callback, ready, registered, epoll>>
      BY <1>15, <2>1, <2>3 DEF CancelWait
    <3>2. Queue' = Queue
      BY <2>2, <3>1 DEF Queue
    <3>3. TypeOK'
      BY <2>2, <3>1 DEF TypeOK
    <3>4. RefInv'
      BY <2>2, <3>1 DEF RefInv, TypeOK
    <3>5. OpInv' /\ SlotInv' /\ QueueInv' /\ HeldInv' /\ ClosedMeansNobodyWaits'
      BY <2>2, <3>1, <3>2, NothingMoves
    <3> QED BY <3>3, <3>4, <3>5
  <2>4. CASE slot[s][k] = kcb[c].op
    <3>1. Complete(s, {k}, "cancelled") /\ UpdateInterest(s, WaitedFor(s) \ {k})
      BY <1>15, <2>1, <2>4 DEF CancelWait
    <3>2. k \in WaitedFor(s) /\ WaitedFor(s) \ {k} \in SUBSET Kinds
      BY <2>1, <2>4, ReactorAssumption DEF WaitedFor
    <3> DEFINE K == {k}
    <3>0. /\ K \in SUBSET WaitedFor(s) /\ "cancelled" \in {"ready", "cancelled", "error"}
          /\ Complete(s, K, "cancelled")
      BY <3>1, <3>2
    <3> HIDE DEF K
    <3>3. /\ slot' \in [States -> [Kinds -> Ops \cup {NoOp}]]
          /\ result' \in [Ops -> {"pending", "ready", "cancelled", "error"}]
          /\ callback' \in [Coros -> Callbacks \cup {NoCallback}]
          /\ ready' \in Seq(Coros)
          /\ WaitedFor(s)' = WaitedFor(s) \ K
          /\ \A t \in States \ {s} : slot'[t] = slot[t]
          /\ OpInv' /\ SlotInv' /\ QueueInv' /\ HeldInv'
      BY <2>2, <3>0, Completion
    <3>4. /\ registered' \in [States -> SUBSET Kinds]
          /\ registered'[s] = WaitedFor(s) \ K
          /\ \A t \in States \ {s} : registered'[t] = registered[t]
          /\ epoll' \in [Fds -> [state : States \cup {NoState}, events : SUBSET Kinds]]
          /\ \A f \in Fds : epoll'[f] # NoInterest => epoll'[f].state \in States
      BY <3>1, <3>2, InterestUpdate DEF K
    <3>5. TypeOK'
      BY <2>2, <3>3, <3>4 DEF TypeOK
    <3>6. RefInv'
      BY <2>2, <3>3, <3>4 DEF RefInv, TypeOK
    <3>7. ClosedMeansNobodyWaits'
      <4>1. \A t \in States \ {s} : WaitedFor(t)' = WaitedFor(t)
        BY <3>3 DEF WaitedFor
      <4>2. ~closing[s]
        BY <3>2 DEF ClosedMeansNobodyWaits
      <4> QED BY <2>2, <3>4, <4>1, <4>2 DEF ClosedMeansNobodyWaits
    <3> QED BY <3>3, <3>5, <3>6, <3>7
  <2> QED BY <2>3, <2>4
<1>16. ASSUME UNCHANGED vars
      PROVE  ReactorInductive'
  <2>0. 
        /\ UNCHANGED <<place, wait, op, handle, result, slot, closing,
             registered, mutex, epoll, ready, lpc, events, batch, current,
             requested, callback, kpc, kcb>>
    BY <1>16 DEF vars
  <2>1. Queue' = Queue
    BY <2>0 DEF Queue
  <2>2. TypeOK'
    BY <2>0 DEF TypeOK
  <2>3. RefInv'
    BY <2>0 DEF RefInv
  <2>4. OpInv' /\ SlotInv' /\ QueueInv' /\ HeldInv' /\ ClosedMeansNobodyWaits'
    BY <2>0, <2>1, NothingMoves
  <2> QED BY <2>2, <2>3, <2>4 DEF ReactorInductive
<1>x. ASSUME NEW c \in Coros, Wait(c)
      PROVE  \E s \in States, k \in Kinds, tok \in BOOLEAN, o \in Ops : WaitFor(c, s, k, tok, o)
  BY <1>x DEF Wait, WaitFor
<1> QED
  BY <1>x, <1>1, <1>2, <1>3, <1>4, <1>5, <1>6, <1>7, <1>8, <1>9, <1>10, <1>11,
     <1>12, <1>13, <1>14, <1>15, <1>16
     DEF Next, LoopStep, AwaiterStep, CancelStep

(* It holds when nobody has waited yet.                                    *)
LEMMA InvariantInit == Init => ReactorInductive
<1> SUFFICES ASSUME Init PROVE ReactorInductive
  OBVIOUS
<1> USE DEF Init
<1>1. Queue = <<>> /\ ToSet(Queue) = {} /\ IsInjective(Queue)
  BY ToSetEmpty DEF Queue, IsInjective
<1>2. TypeOK
  <2>1. <<>> \in Seq(Coros)
    OBVIOUS
  <2>2. /\ NoWait \in [state : States \cup {NoState}, kind : Kinds, token : BOOLEAN]
        /\ NoInterest \in [state : States \cup {NoState}, events : SUBSET Kinds]
    BY DEF NoWait, NoInterest, Kinds
  <2>3. \A c \in Coros : op[c] # NoOp <=> place[c] \in InAwaiter
    BY DEF InAwaiter
  <2>4. /\ place \in [Coros -> Places]
       
        /\ wait \in [Coros -> [state : States \cup {NoState}, kind : Kinds, token : BOOLEAN]]
        /\ op \in [Coros -> Ops \cup {NoOp}]
        /\ epoll \in [Fds -> [state : States \cup {NoState}, events : SUBSET Kinds]]
    BY <2>2 DEF Places
  <2>5. /\ handle \in [Ops -> Coros \cup {NoCoro}]
        /\ result \in [Ops -> {"pending", "ready", "cancelled", "error"}]
        /\ slot \in [States -> [Kinds -> Ops \cup {NoOp}]]
        /\ closing \in [States -> BOOLEAN]
        /\ registered \in [States -> SUBSET Kinds]
        /\ mutex \in [States -> Coros \cup {NoCoro}]
    OBVIOUS
  <2>6. /\ lpc \in {"poll", "dispatch", "resume", "running"}
        /\ events \subseteq [state : States, kinds : SUBSET Kinds]
        /\ current \in Coros \cup {NoCoro}
        /\ requested \in [Coros -> BOOLEAN]
        /\ kpc \in [Coros -> {"idle", "swap", "call", "done"}]
    OBVIOUS
  <2> QED BY <2>1, <2>3, <2>4, <2>5, <2>6 DEF TypeOK
<1>3. RefInv
  BY DEF RefInv
<1>4. OpInv /\ SlotInv
  BY DEF OpInv, SlotInv
<1>5. QueueInv /\ HeldInv
  BY <1>1 DEF QueueInv, HeldInv
<1>6. ClosedMeansNobodyWaits
  BY DEF ClosedMeansNobodyWaits
<1> QED BY <1>2, <1>3, <1>4, <1>5, <1>6 DEF ReactorInductive

(* Hence it holds in every state.                                          *)
LEMMA Invariance == Spec => []ReactorInductive
<1>1. ReactorInductive /\ [Next]_vars => ReactorInductive'
  BY InvariantStep
<1> QED BY <1>1, InvariantInit, PTL DEF Spec

-----------------------------------------------------------------------------
(* update_interest_locked(), called with the slots that are filled, makes  *)
(* the kernel agree with them, if no other state has the descriptor.       *)
LEMMA InterestFollows ==
  ASSUME IsInjective(FdOf), TypeOK, InterestMatchesSlots,
         NEW s \in States, NEW desired \in SUBSET Kinds,
         UpdateInterest(s, desired),
         WaitedFor(s)' = desired,
         \A t \in States \ {s} : slot'[t] = slot[t]
  PROVE  InterestMatchesSlots'
<1>1. \A t \in States \ {s} : WaitedFor(t)' = WaitedFor(t)
  BY DEF WaitedFor
<1>2. CASE desired = registered[s]
  <2>1. UNCHANGED <<registered, epoll>>
    BY <1>2 DEF UpdateInterest
  <2> QED BY <1>1, <1>2, <2>1 DEF InterestMatchesSlots
<1>3. CASE desired # registered[s]
  <2>1. /\ registered' = [registered EXCEPT ![s] = desired]
        /\ epoll' = [epoll EXCEPT ![FdOf[s]] =
             IF desired = {} THEN NoInterest ELSE [state |-> s, events |-> desired]]
    BY <1>3 DEF UpdateInterest
  <2>2. \A t \in States \ {s} : FdOf[t] \in Fds /\ FdOf[t] # FdOf[s]
    BY ReactorAssumption DEF IsInjective
  <2>3. /\ registered'[s] = desired
        /\ epoll'[FdOf[s]] = IF desired = {} THEN NoInterest
                                             ELSE [state |-> s, events |-> desired]
    BY <2>1, ReactorAssumption DEF TypeOK
  <2>4. registered'[s] = IF epoll'[FdOf[s]].state = s THEN epoll'[FdOf[s]].events ELSE {}
    <3>1. CASE desired = {}
      BY <2>3 DEF NoInterest
    <3>2. CASE desired # {}
      BY <2>3, <3>2
    <3> QED BY <3>1, <3>2
  <2>5. \A t \in States \ {s} :
          registered'[t] = registered[t] /\ epoll'[FdOf[t]] = epoll[FdOf[t]]
    BY <2>1, <2>2
  <2>6. ASSUME NEW t \in States \ {s}
        PROVE  /\ registered'[t] = WaitedFor(t)'
              
               /\ registered'[t] = IF epoll'[FdOf[t]].state = t THEN epoll'[FdOf[t]].events ELSE {}
    <3>1. /\ registered[t] = WaitedFor(t)
          /\ registered[t] = IF epoll[FdOf[t]].state = t THEN epoll[FdOf[t]].events ELSE {}
      BY DEF InterestMatchesSlots
    <3>2. /\ registered'[t] = registered[t] /\ epoll'[FdOf[t]] = epoll[FdOf[t]]
          /\ WaitedFor(t)' = WaitedFor(t)
      BY <1>1, <2>5
    <3> QED BY <3>1, <3>2
  <2>7. registered'[s] = WaitedFor(s)'
    BY <2>3
  <2> QED BY <2>4, <2>6, <2>7 DEF InterestMatchesSlots
<1> QED BY <1>2, <1>3

(* Every step keeps the kernel and the slots in agreement.                 *)
LEMMA InterestStep ==
  ASSUME IsInjective(FdOf), ReactorInductive, InterestMatchesSlots, [Next]_vars
  PROVE  InterestMatchesSlots'
<1> USE DEF ReactorInductive
<1>1. ASSUME NEW c \in Coros, ArmWait(c)
      PROVE  InterestMatchesSlots'
  <2>1. PICK s \in States, k \in Kinds : s = wait[c].state /\ k = wait[c].kind
    BY <1>1 DEF ArmWait, TypeOK, InAwaiter, OpInv
  <2>2. /\ slot' = [slot EXCEPT ![s][k] = op[c]] /\ op[c] # NoOp
        /\ UpdateInterest(s, WaitedFor(s) \cup {k})
    BY <1>1, <2>1 DEF ArmWait, TypeOK, InAwaiter
  <2>3. WaitedFor(s)' = WaitedFor(s) \cup {k}
    BY <2>2 DEF TypeOK, WaitedFor
  <2>4. WaitedFor(s) \cup {k} \in SUBSET Kinds /\ \A t \in States \ {s} : slot'[t] = slot[t]
    BY <2>2 DEF WaitedFor
  <2> DEFINE desired == WaitedFor(s) \cup {k}
  <2> HIDE DEF desired
  <2>5. desired \in SUBSET Kinds /\ UpdateInterest(s, desired) /\ WaitedFor(s)' = desired
    BY <2>2, <2>3, <2>4 DEF desired
  <2> QED BY <2>4, <2>5, InterestFollows
<1>2. ASSUME Dispatch
      PROVE  InterestMatchesSlots'
  <2>1. PICK e \in events :
          /\ mutex[e.state] = NoCoro
          /\ events' = events \ {e}
          /\ IF closing[e.state]
               THEN UNCHANGED <<slot, result, callback, ready, registered, epoll>>
               ELSE /\ Complete(e.state, e.kinds \cap WaitedFor(e.state), "ready")
                    /\ UpdateInterest(e.state, WaitedFor(e.state) \ e.kinds)
    BY <1>2 DEF Dispatch
  <2>2. CASE closing[e.state]
    BY <2>1, <2>2 DEF InterestMatchesSlots, WaitedFor
  <2>3. CASE ~closing[e.state]
    <3> DEFINE s == e.state
               kinds == e.kinds \cap WaitedFor(s)
               desired == WaitedFor(s) \ e.kinds
    <3>1. s \in States /\ kinds \in SUBSET WaitedFor(s) /\ desired \in SUBSET Kinds
      BY DEF TypeOK, WaitedFor
    <3>2. Complete(s, kinds, "ready") /\ UpdateInterest(s, desired) /\ mutex[s] = NoCoro
      BY <2>1, <2>3
    <3>3. UNCHANGED <<place, wait, op, handle, mutex, batch>>
      BY <1>2 DEF Dispatch
    <3>4. WaitedFor(s) \ kinds = desired
      OBVIOUS
    <3> HIDE DEF s, kinds, desired
    <3>5. WaitedFor(s)' = WaitedFor(s) \ kinds /\ \A t \in States \ {s} : slot'[t] = slot[t]
      BY <3>1, <3>2, <3>3, Completion
    <3> QED BY <3>1, <3>2, <3>4, <3>5, InterestFollows
  <2> QED BY <2>2, <2>3
<1>3. ASSUME NEW s \in States, Unregister(s)
      PROVE  InterestMatchesSlots'
  <2>1. /\ mutex[s] = NoCoro
        /\ Complete(s, WaitedFor(s), "error") /\ UpdateInterest(s, {})
        /\ UNCHANGED <<place, wait, op, handle, mutex, batch>>
    BY <1>3 DEF Unregister, loopVars
  <2>2. WaitedFor(s)' = {} /\ \A t \in States \ {s} : slot'[t] = slot[t]
    BY <2>1, Completion
  <2> QED BY <2>1, <2>2, InterestFollows
<1>4. ASSUME NEW c \in Coros, CancelWait(c)
      PROVE  InterestMatchesSlots'
  <2>1. PICK s \in States, k \in Kinds :
          s = kcb[c].state /\ k = kcb[c].kind /\ kcb[c].op \in Ops
    BY <1>4 DEF CancelWait, RefInv, Callbacks
  <2>2. mutex[s] = NoCoro /\ UNCHANGED <<place, wait, op, handle, mutex, batch>>
    BY <1>4, <2>1 DEF CancelWait, loopVars
  <2>3. CASE slot[s][k] # kcb[c].op
    BY <1>4, <2>1, <2>3 DEF CancelWait, InterestMatchesSlots, WaitedFor
  <2>4. CASE slot[s][k] = kcb[c].op
    <3> DEFINE K == {k}
               desired == WaitedFor(s) \ K
    <3>1. /\ K \in SUBSET WaitedFor(s) /\ desired \in SUBSET Kinds
          /\ Complete(s, K, "cancelled") /\ UpdateInterest(s, desired)
      BY <1>4, <2>1, <2>4, ReactorAssumption DEF CancelWait, WaitedFor
    <3>2. WaitedFor(s) \ K = desired
      OBVIOUS
    <3> HIDE DEF K, desired
    <3>3. WaitedFor(s)' = WaitedFor(s) \ K /\ \A t \in States \ {s} : slot'[t] = slot[t]
      BY <2>2, <3>1, Completion
    <3> QED BY <3>1, <3>2, <3>3, InterestFollows
  <2> QED BY <2>3, <2>4
<1>5. ASSUME UNCHANGED <<slot, registered, epoll>>
      PROVE  InterestMatchesSlots'
  BY <1>5 DEF InterestMatchesSlots, WaitedFor
<1>6. ASSUME Next,
             ~Dispatch, \A s \in States : ~Unregister(s),
             \A c \in Coros : ~ArmWait(c) /\ ~CancelWait(c)
      PROVE  UNCHANGED <<slot, registered, epoll>>
  BY <1>6
     DEF Next, LoopStep, PollOnce, DispatchDone, ResumeNext, DrainDone, Wait,
         AwaiterStep, ArmRefused, Register, LeaveLoop, RequestCancellation,
         CancelStep, SwapCallbacks, stateVars
<1>7. ASSUME UNCHANGED vars
      PROVE  UNCHANGED <<slot, registered, epoll>>
  BY <1>7 DEF vars, stateVars
<1> QED BY <1>1, <1>2, <1>3, <1>4, <1>5, <1>6, <1>7

-----------------------------------------------------------------------------
(* A wait for a descriptor is queued for resumption at most once, and only *)
(* while it lasts, whichever of event, close and cancellation comes first: *)
(* even if several descriptor_states share a descriptor, and even if the   *)
(* address of an operation is used again.                                  *)
THEOREM ResumedOnlyWhileWaiting == Spec => []ResumeOnlyWaiting
<1>1. ReactorInductive => ResumeOnlyWaiting
  BY DEF ReactorInductive, QueueInv, Queue, ResumeOnlyWaiting
<1> QED BY <1>1, Invariance, PTL

(* If every descriptor belongs to one descriptor_state, registered_events  *)
(* and the kernel's interest list say what the slots hold.                 *)
THEOREM KernelAgrees ==
  ASSUME IsInjective(FdOf)
  PROVE  Spec => []InterestMatchesSlots
<1>1. Init => InterestMatchesSlots
  BY ReactorAssumption DEF Init, InterestMatchesSlots, WaitedFor, NoInterest
<1>2. ReactorInductive /\ InterestMatchesSlots /\ [Next]_vars => InterestMatchesSlots'
  BY InterestStep
<1> QED BY <1>1, <1>2, Invariance, PTL DEF Spec

(* Then, too, a slot holds the operation of a coroutine that is in that    *)
(* wait, a wait is resumed once, one that is not queued is in its slot     *)
(* with the kernel watching for it, and a closed socket has no waits.      *)
THEOREM WaitsAreKept ==
  ASSUME IsInjective(FdOf)
  PROVE  Spec => []ReactorInvariant
<1>1. ReactorInductive /\ InterestMatchesSlots => ReactorInvariant
  <2> SUFFICES ASSUME ReactorInductive, InterestMatchesSlots PROVE ReactorInvariant
    OBVIOUS
  <2> USE DEF ReactorInductive
  <2>1. TypeOK /\ ClosedMeansNobodyWaits
    OBVIOUS
  <2>2. ResumeOnlyWaiting
    BY DEF QueueInv, Queue, ResumeOnlyWaiting
  <2>3. SlotsHoldWaits
    <3> SUFFICES ASSUME NEW s \in States, NEW k \in WaitedFor(s)
                 PROVE  \E c \in Coros :
                          /\ op[c] = slot[s][k]
                          /\ place[c] \in {"register", "deadlock", "waiting"}
                          /\ wait[c].state = s /\ wait[c].kind = k
      BY DEF SlotsHoldWaits
    <3>1. k \in Kinds /\ slot[s][k] # NoOp
      BY DEF WaitedFor
    <3> DEFINE d == handle[slot[s][k]]
    <3>2. /\ d \in Coros /\ op[d] = slot[s][k] /\ wait[d].state = s /\ wait[d].kind = k
          /\ place[d] \in {"register", "deadlock", "waiting"}
      BY <3>1 DEF SlotInv
    <3> QED BY <3>2
  <2>4. ASSUME NEW c \in Coros, place[c] = "waiting", c \notin ToSet(batch \o ready)
        PROVE  Reachable(c)
    <3> DEFINE s == wait[c].state
               k == wait[c].kind
    <3>1. op[c] \in Ops /\ s \in States /\ k \in Kinds
      BY <2>4 DEF TypeOK, InAwaiter, OpInv
    <3>2. slot[s][k] = op[c]
      BY <2>4 DEF HeldInv, Queue
    <3>3. handle[op[c]] = c /\ result[op[c]] = "pending"
      BY <3>1, <3>2, ReactorAssumption DEF SlotInv, OpInv
    <3>4. k \in WaitedFor(s)
      BY <3>1, <3>2, ReactorAssumption DEF WaitedFor
    <3>5. epoll[FdOf[s]].state = s /\ k \in epoll[FdOf[s]].events
      BY <3>1, <3>4 DEF InterestMatchesSlots
    <3> QED BY <3>2, <3>3, <3>5 DEF Reachable
  <2> QED BY <2>2, <2>3, <2>4 DEF ReactorInvariant, NobodyForgotten
<1> QED BY <1>1, Invariance, KernelAgrees, PTL
=============================================================================
