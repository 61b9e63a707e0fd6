---------------------------- MODULE MCReadiness ----------------------------
(* Readiness on a small instance: see MCReadiness.cfg.                     *)
EXTENDS Readiness, TLC

Symmetry == Permutations(Cluster) \cup Permutations(Probe)
=============================================================================
