---------------------------- MODULE MCStreamGroup ----------------------------
(* The consumers of the run of StreamGroup: one acknowledges automatically. *)
EXTENDS StreamGroup

CONSTANTS auto, manual
=============================================================================
