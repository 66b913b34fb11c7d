--------------------------- MODULE MCQueryWorkload ---------------------------
(* Small instances of QueryWorkload for TLC. *)
EXTENDS QueryWorkload

Symmetry == Permutations(Call)
=============================================================================
