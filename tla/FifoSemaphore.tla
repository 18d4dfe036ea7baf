---------------------------- MODULE FifoSemaphore ----------------------------
(***************************************************************************)
(* What xcoro::counting_semaphore promises: permits are stored only while  *)
(* nobody waits, a new permit goes to the first in line, and those in the  *)
(* line whose wait has been cancelled may leave it.                        *)
(***************************************************************************)
EXTENDS Naturals, Sequences, SequencesExt

CONSTANTS Clients, Initial, Maximum

VARIABLES permits,   \* stored permits
          line,      \* who waits for one, first come first
          granted,   \* who was given one and has not taken note of it yet
          quitters   \* whose wait has been cancelled: an input

Init == permits = Initial /\ line = <<>> /\ granted = {}

(* A permit is taken by c, or on the spot by somebody who never waits.     *)
Take(c) ==
  /\ permits > 0 /\ line = <<>>
  /\ permits' = permits - 1
  /\ granted' \in {granted, granted \cup {c}}
  /\ UNCHANGED line

Use(c) ==
  /\ c \in granted
  /\ granted' = granted \ {c}
  /\ UNCHANGED <<permits, line>>

Join(c) ==
  /\ permits = 0 /\ c \notin ToSet(line)
  /\ line' = Append(line, c)
  /\ UNCHANGED <<permits, granted>>

Give ==
  /\ line # <<>>
  /\ line' = Tail(line)
  /\ granted' = granted \cup {Head(line)}
  /\ UNCHANGED permits

Store ==
  /\ line = <<>> /\ permits < Maximum
  /\ permits' = permits + 1
  /\ UNCHANGED <<line, granted>>

Leave(c) ==
  /\ c \in quitters
  /\ \E i \in DOMAIN line : line[i] = c /\ line' = RemoveAt(line, i)
  /\ UNCHANGED <<permits, granted>>

Next ==
  \/ Give \/ Store
  \/ \E c \in Clients : Take(c) \/ Use(c) \/ Join(c) \/ Leave(c)

Spec == Init /\ [][Next]_<<permits, line, granted>>
=============================================================================
