-------------------------- MODULE MCTokenFamilies --------------------------
(* TLC instances of TokenFamilies. *)
EXTENDS TokenFamilies, TLC

RequestSymmetry == Permutations(Requests)

=============================================================================
