----------------------------- MODULE MCAuditLog -----------------------------
(* AuditLog on a small instance: see MCAuditLog.cfg.                       *)
EXTENDS AuditLog

Symmetry == Permutations(Writer) \cup Permutations(Kind)
=============================================================================
