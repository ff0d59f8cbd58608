--------------------------- MODULE MCBindingEdits ----------------------------
(* TLC instances of BindingEdits. *)
EXTENDS BindingEdits, TLC

Symmetry == Permutations(Confirms) \cup Permutations(Edits)

=============================================================================
