-------------------------- MODULE MCAgentLifecycle --------------------------
(* TLC instances of AgentLifecycle. *)
EXTENDS AgentLifecycle, TLC

CONSTANTS admin, member

\* Every credential was created by the user who is not an admin.
OfMember == [c \in Creds |-> member]

RequestSymmetry == Permutations(Requests)

=============================================================================
