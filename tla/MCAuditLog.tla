----------------------------- MODULE MCAuditLog -----------------------------
(* Symmetry of the audit trail's slots for TLC.                             *)
EXTENDS AuditLog, TLC

Symmetry == Permutations(Writers)
=============================================================================
