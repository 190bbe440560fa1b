------------------------------ MODULE MCToolkit ------------------------------
(* The sets of the run of Toolkit. *)
EXTENDS Toolkit, TLC

CONSTANTS a, b, c, d, t1, t2, l1, l2

TwoOf == {a, b}
ThreeOf == {a, b, c}
FourOf == {a, b, c, d}
TwoThreads == {t1, t2}
TwoLoops == {l1, l2}
\* Two items that have a bit in common.
Overlapping == a :> {1, 2} @@ b :> {2, 3}
=============================================================================
