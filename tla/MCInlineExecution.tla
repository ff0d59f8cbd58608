-------------------------- MODULE MCInlineExecution --------------------------
(* TLC instances of InlineExecution. *)
EXTENDS InlineExecution, TLC

\* One caller owns every key.
OneCaller == [k \in Keys \cup OtherKeys |-> "caller"]

\* Room for two claims or one record; one body;
\* the breaker's entries but one.
TightBudget ==
    [ns \in {"idem", "idem-body", "cb"} |->
        CASE ns = "idem"      -> [entries |-> 2, bytes |-> 4, ownerEntries |-> 2, ownerBytes |-> 4]
          [] ns = "idem-body" -> [entries |-> 2, bytes |-> 3, ownerEntries |-> 2, ownerBytes |-> 3]
          [] ns = "cb"        -> [entries |-> 4, bytes |-> 9, ownerEntries |-> 4, ownerBytes |-> 9]]

\* Two keyed requests, two streams, or one of each.
Pairs == {Keyed, Streams} \cup {{r, s} : r \in Keyed, s \in Streams}

Symmetry == Permutations(Keyed) \cup Permutations(Streams)

=============================================================================
