-------------------------- MODULE MCEntityRepository --------------------------
(* The clients and ids of the runs of EntityRepository. *)
EXTENDS EntityRepository, TLC

CONSTANTS a, b, uuid, named

Symmetry == Permutations(Clients)
=============================================================================
