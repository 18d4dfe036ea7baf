------------------------------ MODULE WaitQueue ------------------------------
(***************************************************************************)
(* The queue of a mutex or a semaphore as those who wait in it see it.     *)
(***************************************************************************)
EXTENDS Naturals, Sequences

(* The names of the elements of the queue q that are not gone, in order.   *)
Remaining(q, gone, name) ==
  LET line[i \in 0..Len(q)] ==
        IF i = 0 THEN <<>>
        ELSE IF gone[q[i]] THEN line[i - 1] ELSE Append(line[i - 1], name[q[i]])
  IN  line[Len(q)]
=============================================================================
