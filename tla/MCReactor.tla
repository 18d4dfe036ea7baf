------------------------------ MODULE MCReactor ------------------------------
EXTENDS Reactor

(* The memory of an operation whose awaiter is destroyed is not state.     *)
Live(f) == [o \in {op[c] : c \in Coros} \ {NoOp} |-> f[o]]
View == <<place, wait, op, Live(handle), Live(result), stateVars, ready, loopVars,
          cancelVars>>

(* Sockets have a descriptor each.                                         *)
CONSTANTS s1, f1
OneSocket == s1 :> f1
=============================================================================
