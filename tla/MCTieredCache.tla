---------------------------- MODULE MCTieredCache ----------------------------
(* The uses of the run of TieredCache: two threads that race on one key, under each *)
(* policy, and one thread whose keys evict each other or stay together for a sweep. *)
EXTENDS TieredCache

CONSTANTS k1, k2, t1, t2

Racing == [threads : {{t1, t2}}, keys : {{k1}}, maxsize : {1},
           policy : {"raise", "return_none", "callback"}]
Alone == [threads : {{t1}}, keys : {{k1, k2}}, maxsize : {1, 2}, policy : {"raise"}]
MCUses == Racing \cup Alone
=============================================================================
