---------------------------- MODULE MCTombstone ----------------------------
(* Tombstone on a small instance: two tombstones, each name recreated at   *)
(* most once, three writes by other actors and one failing API call.       *)
EXTENDS Tombstone

MCNumTombstones == 2
MCMaxIncarnation == 1
MCMaxEnvSteps == 3
MCMaxApiErrors == 1
=============================================================================
