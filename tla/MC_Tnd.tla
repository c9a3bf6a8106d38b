------------------------------- MODULE MC_Tnd -------------------------------
(* Small instances of Tnd for TLC. *)
EXTENDS Tnd

(* Node ids 0..2 are accepted by main, -1 and 3 refused; 2 lies outside  *)
(* the cluster of the main runs, so the outbound migrate can meet EINVAL *)
(* as well as EBUSY and EAGAIN.                                          *)
MC_MAX_POPCORN_NODES == 3
MC_Cluster == {0, 1}
(* A cluster whose second node has id 2: a legal pair for main that *)
(* arch_types[2] cannot hold.                                       *)
MC_ClusterHigh == {0, 2}
MC_Args == {-1, 0, 1, 2, 3}
(* No threads, one thread, two threads racing on all_done. *)
MC_NThreadArgs == {0, 1, 2}
MC_Tids == {-1, 7}
=============================================================================
