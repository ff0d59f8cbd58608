--------------------------- MODULE MCLookupCaches ---------------------------
(* TLC instances of LookupCaches. *)
EXTENDS LookupCaches, TLC

=============================================================================
