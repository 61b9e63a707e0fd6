-------------------------- MODULE MCClusterClient ---------------------------
(* ClusterClient on a small instance.                                      *)
EXTENDS ClusterClient, TLC

Symmetry == Permutations(Caller)
=============================================================================
