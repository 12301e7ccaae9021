------------------------- MODULE MCClusterMachines -------------------------
(* Instance of ClusterMachines for TLC. *)
EXTENDS ClusterMachines
=============================================================================
