--------------------------- MODULE MCHandleTable ---------------------------
(* Two callers and two interchangeable objects on a table of two slots.      *)
EXTENDS HandleTable, TLC

Symmetry == Permutations(Callers) \cup Permutations(Objects)

=============================================================================
