------------------------------- MODULE Stream --------------------------------
(***************************************************************************)
(* A connection between two sockets (net/socket.hpp, net/acceptor.hpp):    *)
(* the client connects and writes, the server accepts and reads into a     *)
(* byte_buffer.  Each end is one coroutine; other coroutines cancel its    *)
(* calls and close its socket.                                             *)
(*                                                                         *)
(* A call runs on the loop thread from one suspension to the next: the     *)
(* look at the token and the system call are one step, EINTR repeats it.   *)
(* The reactor (see Reactor) is only a wait that ends when epoll would     *)
(* report the descriptor, when the token is cancelled or when the socket   *)
(* is closed.  The caller prepares, reads and commits before it consumes.  *)
(***************************************************************************)
EXTENDS ByteBuffer

CONSTANTS Total,            \* the client's bytes are 1..Total
          PipeCapacity,     \* what the kernel buffers
          InitialCapacity,  \* byte_buffer's argument
          MaxRequest,       \* bound: the bytes of one call
          MaxHeld           \* bound: the bytes the caller lets a buffer hold

ASSUME StreamAssumption ==
  /\ {Total, PipeCapacity, InitialCapacity, MaxRequest} \subseteq Nat \ {0}
  /\ MaxHeld \in Nat

VARIABLES
  link,          \* the kernel's view of the connection
  pipe,          \* the bytes in the kernel's buffers
  open,          \* socket::is_open(), per end
  pc,            \* where an end's coroutine is
  op,            \* the function it has called
  callCancelled, \* is that call's token cancelled
  want,          \* what the client's call still has to write
  buffer,        \* the server's byte_buffer
  span,          \* the offsets it has prepared for reading, in order
  split,         \* how many of them lie in the first region
  done,          \* bytes of span filled by calls that have returned
  part,          \* bytes filled by the current call
  eof,           \* a read has returned short: the peer has closed
  sent,          \* bytes the kernel has accepted (history)
  taken          \* bytes the server has consumed (history)

linkVars  == <<link, open>>
callVars  == <<pc, op, callCancelled>>
readVars  == <<buffer, span, split, done, part, eof>>
connectionVars == <<linkVars, callVars, readVars, pipe, want, sent, taken>>

Ends == {"client", "server"}
Peer(e) == IF e = "client" THEN "server" ELSE "client"

StreamInit ==
  /\ link = "none" /\ pipe = <<>> /\ open = [e \in Ends |-> TRUE]
  /\ pc = [e \in Ends |-> "start"] /\ op = [e \in Ends |-> "none"]
  /\ callCancelled = [e \in Ends |-> FALSE]
  /\ want = 0 /\ sent = 0 /\ taken = <<>>
  /\ buffer = EmptyBuffer(InitialCapacity)
  /\ span = <<>> /\ split = 0 /\ done = 0 /\ part = 0 /\ eof = FALSE

Goto(e, to) == pc' = [pc EXCEPT ![e] = to]

(* A call begins, with a token of its own; ensure_open() comes first.      *)
Call(e, f) ==
  /\ open[e]
  /\ Goto(e, "call")
  /\ op' = [op EXCEPT ![e] = f]
  /\ callCancelled' = [callCancelled EXCEPT ![e] = FALSE]

(* The token and the handle allow a system call.                           *)
InCall(e, f) == pc[e] = "call" /\ op[e] \in f /\ open[e] /\ ~callCancelled[e]

-----------------------------------------------------------------------------
(* async_connect(): connect() succeeds, or is in progress and the client   *)
(* waits for writability.  Called again after a cancelled wait it meets a  *)
(* connection that is still pending, or established.                       *)
CallConnect ==
  /\ pc["client"] = "start" /\ Call("client", "connect")
  /\ UNCHANGED <<linkVars, readVars, pipe, want, sent, taken>>

TryConnect ==
  /\ InCall("client", {"connect"})
  /\ \/ link \in {"none", "up"} /\ link' = "up" /\ Goto("client", "idle")
     \/ link \in {"none", "pending"} /\ link' = "pending" /\ Goto("client", "wait")
     \/ link \in {"none", "refused"} /\ link' = "refused" /\ Goto("client", "ended")
  /\ UNCHANGED <<open, op, callCancelled, readVars, pipe, want, sent, taken>>

Handshake ==
  /\ link = "pending" /\ link' \in {"up", "refused"}
  /\ UNCHANGED <<open, callVars, readVars, pipe, want, sent, taken>>

(* acceptor::async_accept().                                               *)
CallAccept ==
  /\ pc["server"] = "start" /\ Call("server", "accept")
  /\ UNCHANGED <<linkVars, readVars, pipe, want, sent, taken>>

TryAccept ==
  /\ InCall("server", {"accept"})
  /\ Goto("server", IF link = "up" THEN "idle" ELSE "wait")
  /\ UNCHANGED <<linkVars, op, callCancelled, readVars, pipe, want, sent, taken>>

-----------------------------------------------------------------------------
(* async_write_some() and async_write_all(): the kernel takes some of the  *)
(* bytes, or none for now, or there is nobody to read them.                *)
CallWrite(f, n) ==
  /\ pc["client"] = "idle" /\ n <= Total - sent /\ Call("client", f)
  /\ want' = n
  /\ UNCHANGED <<linkVars, readVars, pipe, sent, taken>>

Write ==
  /\ InCall("client", {"write_some", "write_all"})
  /\ \/ \E n \in 1..Least(want, PipeCapacity - Len(pipe)) :
          /\ pipe' = pipe \o [i \in 1..n |-> sent + i]
          /\ sent' = sent + n /\ want' = want - n
          /\ Goto("client", IF op["client"] = "write_some" \/ want = n THEN "idle" ELSE "call")
     \/ Len(pipe) = PipeCapacity /\ Goto("client", "wait") /\ UNCHANGED <<pipe, sent, want>>
     \/ ~open["server"] /\ Goto("client", "ended") /\ UNCHANGED <<pipe, sent, want>>
  /\ UNCHANGED <<linkVars, op, callCancelled, readVars, taken>>

-----------------------------------------------------------------------------
(* The server prepares room, as one span or as two regions that are read   *)
(* into one after the other, and calls async_read_some() or                *)
(* async_read_exact().                                                     *)
CallRead(f, n) ==
  /\ pc["server"] = "idle" /\ ~eof /\ buffer.size + n <= MaxHeld
  /\ Call("server", f)
  /\ \/ /\ buffer' = PrepareContiguous(buffer, n)
        /\ span' = ContiguousSpan(buffer', n) /\ split' = n
     \/ /\ buffer' = EnsureWritable(buffer, n)
        /\ LET regions == WritableRegions(buffer', n) IN
             span' = regions[1] \o regions[2] /\ split' = Len(regions[1])
  /\ done' = 0 /\ part' = 0
  /\ UNCHANGED <<linkVars, pipe, want, eof, sent, taken>>

(* How far the current call is to fill the span.                           *)
Goal == IF done < split THEN split ELSE Len(span)

Store(bytes) ==
  buffer' = [buffer EXCEPT !.storage =
    [i \in DOMAIN @ |-> IF \E k \in DOMAIN bytes : span[done + part + k] = i - 1
                          THEN bytes[CHOOSE k \in DOMAIN bytes : span[done + part + k] = i - 1]
                          ELSE @[i]]]

(* read() has filled some of the region; read_some() returns that, and     *)
(* read_exact() once the region is full.                                   *)
ReadBytes ==
  /\ InCall("server", {"read_some", "read_exact"})
  /\ \E n \in 1..Least(Len(pipe), Goal - done - part) :
       /\ Store(SubSeq(pipe, 1, n))
       /\ pipe' = SubSeq(pipe, n + 1, Len(pipe))
       /\ IF op["server"] = "read_some" \/ done + part + n = Goal
            THEN done' = done + part + n /\ part' = 0 /\ Goto("server", "returned")
            ELSE part' = part + n /\ UNCHANGED <<done, pc>>
  /\ UNCHANGED <<linkVars, op, callCancelled, want, span, split, eof, sent, taken>>

(* read() has returned 0, or would block.                                  *)
ReadNothing ==
  /\ InCall("server", {"read_some", "read_exact"}) /\ pipe = <<>>
  /\ IF open["client"]
       THEN Goto("server", "wait") /\ UNCHANGED <<done, part, eof>>
       ELSE done' = done + part /\ part' = 0 /\ eof' = TRUE /\ Goto("server", "returned")
  /\ UNCHANGED <<linkVars, op, callCancelled, buffer, span, split, pipe, want, sent, taken>>

(* The caller goes on with the second region, or commits what it has.      *)
Returned ==
  /\ pc["server"] = "returned"
  /\ IF done = split /\ split < Len(span) /\ ~eof
       THEN Goto("server", "call") /\ UNCHANGED <<buffer, span, split, done>>
       ELSE /\ buffer' = Commit(buffer, done)
            /\ span' = <<>> /\ split' = 0 /\ done' = 0
            /\ Goto("server", "idle")
  /\ UNCHANGED <<linkVars, op, callCancelled, part, eof, pipe, want, sent, taken>>

ConsumeBytes(n) ==
  /\ pc["server"] = "idle" /\ n <= buffer.size
  /\ taken' = taken \o SubSeq(Content(buffer), 1, n)
  /\ buffer' = Consume(buffer, n)
  /\ UNCHANGED <<linkVars, callVars, span, split, done, part, eof, pipe, want, sent>>

-----------------------------------------------------------------------------
(* Mutant of Ready: a peer that closes wakes nobody.                       *)
ReadyUnlessHungUp(e) ==
  CASE op[e] = "connect" -> link \in {"up", "refused"}
    [] op[e] = "accept"  -> link = "up"
    [] op[e] \in {"write_some", "write_all"} -> Len(pipe) < PipeCapacity
    [] OTHER -> pipe # <<>>

(* When epoll reports the descriptor an end waits for: readable or         *)
(* writable, or hung up.                                                   *)
Ready(e) ==
  CASE op[e] = "connect" -> link \in {"up", "refused"}
    [] op[e] = "accept"  -> link = "up"
    [] op[e] \in {"write_some", "write_all"} -> Len(pipe) < PipeCapacity \/ ~open["server"]
    [] OTHER -> pipe # <<>> \/ ~open["client"]

(* The wait ends and the loop goes round; async_connect() looks at         *)
(* SO_ERROR instead and returns.                                           *)
Resume(e) ==
  /\ pc[e] = "wait" /\ open[e] /\ Ready(e)
  /\ Goto(e, IF op[e] # "connect" THEN "call" ELSE IF link = "up" THEN "idle" ELSE "ended")
  /\ UNCHANGED <<linkVars, op, callCancelled, readVars, pipe, want, sent, taken>>

(* The call throws operation_cancelled, from its wait or before the next   *)
(* system call.  One that moves some bytes at most has moved none: the     *)
(* caller goes on, committing what earlier calls returned.  Of             *)
(* write_all() and read_exact() it cannot tell, and gives up.              *)
ThrowCancelled(e) ==
  /\ pc[e] \in {"call", "wait"} /\ callCancelled[e]
  /\ Goto(e, CASE op[e] \in {"connect", "accept"} -> "start"
               [] op[e] = "write_some" -> "idle"
               [] op[e] = "read_some" -> "idle"
               [] OTHER -> "ended")
  /\ IF op[e] = "read_some"
       THEN buffer' = Commit(buffer, done) /\ span' = <<>> /\ split' = 0 /\ done' = 0
       ELSE UNCHANGED <<buffer, span, split, done>>
  /\ UNCHANGED <<linkVars, op, callCancelled, part, eof, pipe, want, sent, taken>>

(* The socket was closed under the call: the wait ends with EBADF, or the  *)
(* next system call fails with it.                                         *)
ThrowClosed(e) ==
  /\ pc[e] \in {"call", "wait"} /\ ~open[e]
  /\ Goto(e, "ended")
  /\ UNCHANGED <<linkVars, op, callCancelled, readVars, pipe, want, sent, taken>>

Cancel(e) ==
  /\ pc[e] \in {"call", "wait"}
  /\ callCancelled' = [callCancelled EXCEPT ![e] = TRUE]
  /\ UNCHANGED <<linkVars, pc, op, readVars, pipe, want, sent, taken>>

Close(e) ==
  /\ open' = [open EXCEPT ![e] = FALSE]
  /\ UNCHANGED <<link, callVars, readVars, pipe, want, sent, taken>>

-----------------------------------------------------------------------------
ClientStep == TryConnect \/ Write \/ Resume("client")
                \/ ThrowCancelled("client") \/ ThrowClosed("client")
ServerStep == TryAccept \/ ReadBytes \/ ReadNothing \/ Returned \/ Resume("server")
                \/ ThrowCancelled("server") \/ ThrowClosed("server")

StreamNext ==
  \/ ClientStep \/ ServerStep \/ CallConnect \/ CallAccept \/ Handshake
  \/ \E n \in 1..MaxRequest :
       \/ \E f \in {"write_some", "write_all"} : CallWrite(f, n)
       \/ \E f \in {"read_some", "read_exact"} : CallRead(f, n)
  \/ \E n \in 1..buffer.size : ConsumeBytes(n)
  \/ \E e \in Ends : Cancel(e) \/ Close(e)

StreamSpec == StreamInit /\ [][StreamNext]_connectionVars

(* The loop resumes whoever is ready, a coroutine inside a call goes on,   *)
(* and the handshake ends.  Nobody has to call, cancel, consume or close.  *)
StreamFairSpec ==
  /\ StreamSpec
  /\ WF_connectionVars(ClientStep) /\ WF_connectionVars(ServerStep) /\ WF_connectionVars(Handshake)

-----------------------------------------------------------------------------
StreamTypeOK ==
  /\ link \in {"none", "pending", "up", "refused"}
  /\ open \in [Ends -> BOOLEAN] /\ callCancelled \in [Ends -> BOOLEAN]
  /\ pc \in [Ends -> {"start", "call", "wait", "returned", "idle", "ended"}]
  /\ op \in [Ends -> {"none", "connect", "accept", "write_some", "write_all",
                      "read_some", "read_exact"}]
  /\ pipe \in Seq(1..Total) /\ Len(pipe) <= PipeCapacity
  /\ buffer.storage \in Seq(0..Total) /\ buffer.size <= Capacity(buffer)
  /\ span \in Seq(Nat) /\ split <= Len(span) /\ done + part <= Len(span)
  /\ eof \in BOOLEAN /\ want \in 0..MaxRequest /\ sent \in 0..Total

(* The span a read goes to lies inside the storage, touches no byte that   *)
(* is still to be consumed, and is what commit() will publish, in order.   *)
SpanIsFree ==
  /\ \A i \in DOMAIN span : span[i] < Capacity(buffer)
  /\ pc["server"] # "ended" /\ span # <<>> =>
       Readable(Commit(buffer, Len(span))) = Readable(buffer) \o span

(* The bytes in the span that no commit has published yet.                 *)
Uncommitted == BytesAt(buffer, SubSeq(span, 1, done + part))

(* A reader is told of the end only when it has every byte that was sent.  *)
EofIsLast == eof => pipe = <<>> /\ Len(taken \o Content(buffer) \o Uncommitted) = sent

(* What holds of socket calls and buffer in every state.                   *)
StreamInvariant == StreamTypeOK /\ SpanIsFree /\ EofIsLast

(* The connection is a first-in first-out stream of bytes, whatever is     *)
(* split, retried, cancelled, grown, wrapped or moved on the way.          *)
Abstract == INSTANCE ByteStream WITH transit <- Content(buffer) \o Uncommitted \o pipe
ImplementsByteStream == Abstract!Spec

(* A call does not outlast its reason to wait: closing the socket, closing *)
(* the peer's, cancelling the token or, for read_some(), a byte ends it.   *)
CallEnds ==
  \A e \in Ends :
    /\ pc[e] \in {"call", "wait"} /\ (callCancelled[e] \/ ~open[e]) ~> pc[e] \notin {"call", "wait"}
    /\ pc["server"] = "wait" /\ op["server"] \in {"read_some", "read_exact"}
         /\ (~open["client"] \/ (pipe # <<>> /\ op["server"] = "read_some"))
         ~> pc["server"] \notin {"call", "wait"}
=============================================================================
