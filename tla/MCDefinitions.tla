--------------------------- MODULE MCDefinitions ---------------------------
(* Definitions, versions and steps on small instances. *)
EXTENDS WorkflowDefinitions, TLC

Symmetry == Permutations(Request)
=============================================================================
