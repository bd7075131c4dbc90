------------------------------ MODULE MCAudit ------------------------------
(* AuditLog for TLC: the writers are interchangeable. *)
EXTENDS AuditLog, TLC

WriterSymmetry == Permutations(Writers)

=============================================================================
