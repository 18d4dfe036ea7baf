------------------------------- MODULE MCMutex -------------------------------
EXTENDS MutexInv

(* The memory of a waiter_state nobody points to is not part of the state. *)
Live(f) == [w \in Waiters \ FreeWaiters |-> f[w]]
View == <<pc, awaiterVars, cancelVars, lockVars,
          Live(handle), Live(resumed), Live(cancelled), Live(phase)>>
=============================================================================
