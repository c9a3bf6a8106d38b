------------------------------- MODULE MC_Ft2c -------------------------------
(* ft2c on a two-node cluster with one more valid node id that is not in  *)
(* the cluster, argument values below, inside and above the valid range,   *)
(* and gettid results that are valid, different, or -1.                   *)
EXTENDS Ft2c

MC_MAX_POPCORN_NODES == 3
MC_Cluster == {0, 1}
MC_Args == {-1, 0, 1, 2, 3}
MC_Argcs == {2, 3}
MC_Tids == {-1, 7, 8}
=============================================================================
