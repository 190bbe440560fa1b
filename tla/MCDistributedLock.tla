-------------------------- MODULE MCDistributedLock --------------------------
(* The calls and threads of the runs of DistributedLock. *)
EXTENDS DistributedLock, TLC

CONSTANTS t1, t2

\* Thread t1 makes two calls, nested or one after the other, and t2 one.
ThreeCalls == 1 :> t1 @@ 2 :> t2 @@ 3 :> t1
\* One call each.
TwoCalls == 1 :> t1 @@ 2 :> t2
=============================================================================
