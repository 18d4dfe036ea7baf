------------------------------ MODULE FifoLock ------------------------------
(***************************************************************************)
(* What xcoro::mutex promises: a lock with one owner and one line.  A free *)
(* lock has no line, the owner hands the lock to the first in line, and    *)
(* anybody in the line may leave it.                                       *)
(***************************************************************************)
EXTENDS Sequences, SequencesExt

CONSTANTS Clients, Nobody

VARIABLES owner,    \* who owns the lock, or Nobody
          line,     \* who waits for it, first come first
          quitters  \* whose wait has been cancelled: an input

Init == owner = Nobody /\ line = <<>>

Take(c) ==
  /\ owner = Nobody /\ line = <<>>
  /\ owner' = c
  /\ UNCHANGED line

Join(c) ==
  /\ owner \notin {Nobody, c} /\ c \notin ToSet(line)
  /\ line' = Append(line, c)
  /\ UNCHANGED owner

HandOver ==
  /\ owner # Nobody /\ line # <<>>
  /\ owner' = Head(line)
  /\ line' = Tail(line)

Release ==
  /\ owner # Nobody /\ line = <<>>
  /\ owner' = Nobody
  /\ UNCHANGED line

Leave(c) ==
  /\ c \in quitters
  /\ \E i \in DOMAIN line : line[i] = c /\ line' = RemoveAt(line, i)
  /\ UNCHANGED owner

Next ==
  \/ HandOver \/ Release
  \/ \E c \in Clients : Take(c) \/ Join(c) \/ Leave(c)

Spec == Init /\ [][Next]_<<owner, line>>
=============================================================================
