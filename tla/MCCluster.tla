----------------------------- MODULE MCCluster -----------------------------
(* Cluster for TLC.  No symmetry: the run checks a liveness property.      *)
EXTENDS Cluster
=============================================================================
