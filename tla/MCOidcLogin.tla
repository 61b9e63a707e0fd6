---------------------------- MODULE MCOidcLogin ----------------------------
(* OidcLogin on a small instance: see MCOidcLogin.cfg.                     *)
EXTENDS OidcLogin, TLC

Symmetry ==
  Permutations(Flow) \cup Permutations(Subject) \cup Permutations(Request)
=============================================================================
