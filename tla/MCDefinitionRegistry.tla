------------------------ MODULE MCDefinitionRegistry ------------------------
(* Small instances of DefinitionRegistry for TLC. *)
EXTENDS DefinitionRegistry
=============================================================================
