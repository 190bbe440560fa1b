--------------------------- MODULE MCReliableQueue ---------------------------
(* The consumers of the run of ReliableQueue. *)
EXTENDS ReliableQueue

CONSTANTS c1, c2
=============================================================================
