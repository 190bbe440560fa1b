--------------------------- MODULE MCReadWriteLock ---------------------------
(* The calls of the runs of ReadWriteLock. *)
EXTENDS ReadWriteLock, TLC

CONSTANTS r1, r2, w1, w2

\* The second reader asks for a shorter lease than the first.
Timeouts == r1 :> 2 @@ r2 :> 1 @@ w1 :> 2 @@ w2 :> 1
EqualTimeouts == [c \in Calls |-> 2]
=============================================================================
