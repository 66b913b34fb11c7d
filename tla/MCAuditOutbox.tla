---------------------------- MODULE MCAuditOutbox ----------------------------
(* Small instances of AuditOutbox for TLC. *)
EXTENDS AuditOutbox, TLC

\* A closed checkpoint is longer: it adds endedAt and closeReason.
SizeByKind == [started |-> 2, closed |-> 3]
Symmetry   == Permutations(Session)
=============================================================================
