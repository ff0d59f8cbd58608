----------------------------- MODULE MCJobQueue -----------------------------
(* TLC instances of JobQueue. *)
EXTENDS JobQueue, TLC

\* Every job belongs to one agent.
OneOwner == [j \in Jobs |-> CHOOSE a \in Agents : TRUE]

\* All calls are distinct requests under distinct traces.
Distinct == [j \in Jobs |-> j]

\* All calls are the same request, or arrive under the same trace.
Same == [j \in Jobs |-> 1]

WorkerSymmetry == Permutations(Workers)

=============================================================================
