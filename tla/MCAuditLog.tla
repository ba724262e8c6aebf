----------------------------- MODULE MCAuditLog -----------------------------
(* Instances of AuditLog; writers and clients are interchangeable.         *)
EXTENDS AuditLog, TLC

Symmetry == Permutations(Writers) \cup Permutations(Clients)
=============================================================================
