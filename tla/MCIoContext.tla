----------------------------- MODULE MCIoContext -----------------------------
EXTENDS IoContext

Symmetry ==
  Permutations(Sources) \cup Permutations(Coros \ Sources) \cup Permutations(Timers)

(* The memory of a timer_state nobody points to is not part of the state.  *)
Live(f) == [s \in UsedTimers \ {NoTimer} |-> f[s]]
View == <<ready, signalled, ownerVars, now, loopVars, place, threadVars, timer,
          heap, Live(handle), Live(deadline), Live(completed), Live(cancelled),
          tokenVars>>
=============================================================================
