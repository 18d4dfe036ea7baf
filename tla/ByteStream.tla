----------------------------- MODULE ByteStream ------------------------------
(***************************************************************************)
(* What a connection promises: a first-in first-out stream of bytes.  The  *)
(* sender's n-th byte is the number n.                                     *)
(***************************************************************************)
EXTENDS Naturals, Sequences

CONSTANT Total  \* how many bytes there are to send

VARIABLES sent,     \* how many have been sent
          transit,  \* the bytes sent and not yet taken
          taken     \* the bytes the receiver has taken, in order

streamVars == <<sent, transit, taken>>

Init == sent = 0 /\ transit = <<>> /\ taken = <<>>

Send == \E n \in 1..(Total - sent) :
  /\ sent' = sent + n
  /\ transit' = transit \o [i \in 1..n |-> sent + i]
  /\ UNCHANGED taken

Take == \E n \in 1..Len(transit) :
  /\ taken' = taken \o SubSeq(transit, 1, n)
  /\ transit' = SubSeq(transit, n + 1, Len(transit))
  /\ UNCHANGED sent

Spec == Init /\ [][Send \/ Take]_streamVars
=============================================================================
