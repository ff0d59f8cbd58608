------------------------- MODULE MCCredentialGrant -------------------------
(* TLC instances of CredentialGrant. *)
EXTENDS CredentialGrant, TLC

=============================================================================
