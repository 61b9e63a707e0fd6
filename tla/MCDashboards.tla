---------------------------- MODULE MCDashboards ----------------------------
(* Dashboards on a small instance: see MCDashboards.cfg.                   *)
EXTENDS Dashboards, TLC

Symmetry == Permutations(Request) \cup Permutations(User)
=============================================================================
