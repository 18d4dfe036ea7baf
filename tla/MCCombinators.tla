---------------------------- MODULE MCCombinators ----------------------------
EXTENDS Combinators

CONSTANTS c1, c2, c3, c4, e1, e2, t

MCTasks == <<c1, c2, c3, c4>>
MCGate  == (c1 :> e1) @@ (c2 :> t) @@ (c3 :> e1) @@ (c4 :> e2)
=============================================================================
