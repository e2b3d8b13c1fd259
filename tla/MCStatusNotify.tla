--------------------------- MODULE MCStatusNotify ---------------------------
(* Instances of StatusNotify for TLC. *)
EXTENDS StatusNotify, FiniteSets, TLC

Symmetry == Permutations(Writers) \cup Permutations(Handlers) \cup Permutations(Jobs)

=============================================================================
