----------------------------- MODULE MCWebauthn -----------------------------
(* Webauthn on a small instance.                                           *)
EXTENDS Webauthn, TLC

Symmetry ==
  Permutations(User) \cup Permutations(Request) \cup Permutations(Challenge)
    \cup Permutations(Passkey)
=============================================================================
