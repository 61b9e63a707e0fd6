----------------------------- MODULE MCSessions -----------------------------
(* Sessions on small instances: see the .cfg files.                        *)
EXTENDS Sessions, TLC

CONSTANTS alice, idA, admin, viewer, p1

AdminAccount ==
  [id |-> idA, role |-> admin, enabled |-> TRUE, password |-> p1]

SeedAlice == alice :> AdminAccount

SeedEmpty == alice :> NoAccount

LdapIds == [u \in Username |-> idA]

Symmetry == Permutations(TokenId) \cup Permutations(Request)
=============================================================================
