--------------------------- MODULE MCRefreshStore ---------------------------
(* The refresh store on a small instance: see the .cfg files.              *)
EXTENDS RefreshStore, TLC

Symmetry == Permutations(TokenId)
=============================================================================
