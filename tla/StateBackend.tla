---------------------------- MODULE StateBackend ----------------------------
(***************************************************************************)
(* The in-process key/value store behind Idempotency-Key claims and the    *)
(* circuit breaker (MemoryStateBackend, shared/state/backend.py): entries  *)
(* with a deadline, a budget per namespace, per owner and for the whole    *)
(* backend, and no eviction of a live entry.                               *)
(*                                                                         *)
(* A store is a function whose domain is the keys physically present; a    *)
(* key is <<namespace, owner, name>>, an entry [val, size, exp].  No       *)
(* method of the backend suspends, so each is one operator.                *)
(***************************************************************************)
EXTENDS Naturals, FiniteSets, Functions

CONSTANTS
    Budget,      \* namespace -> [entries, bytes, ownerEntries, ownerBytes]
    TotalBytes   \* max_total_bytes

ASSUME BudgetAssumption ==
    /\ \A ns \in DOMAIN Budget :
         Budget[ns] \in [entries : Nat, bytes : Nat, ownerEntries : Nat, ownerBytes : Nat]
    /\ TotalBytes \in Nat

Scopes == <<"namespace", "owner_share", "total">>

\* The keys charged to the scope of a kind that `key` counts against.
Charged(kv, key, scope) ==
    {k \in DOMAIN kv : /\ scope # "total"       => k[1] = key[1]
                       /\ scope = "owner_share" => k[2] = key[2]}

\* The sum of the sizes, counted byte by byte.
Bytes(kv, keys) == Cardinality(UNION {{k} \X (1 .. kv[k].size) : k \in keys})

ByteLimit(ns, scope) ==
    CASE scope = "namespace"   -> Budget[ns].bytes
      [] scope = "owner_share" -> Budget[ns].ownerBytes
      [] scope = "total"       -> TotalBytes

EntryLimit(ns, scope) ==
    IF scope = "namespace" THEN Budget[ns].entries ELSE Budget[ns].ownerEntries

\* _fits: an overwrite is charged its difference only, and the total has no limit
\* on entries.
Fits(kv, key, size, scope) ==
    LET others == Charged(kv, key, scope) \ {key}
    IN /\ scope # "total" => Cardinality(others) + 1 <= EntryLimit(key[1], scope)
       /\ Bytes(kv, others) + size <= ByteLimit(key[1], scope)

\* _refusing_scope: the first scope, in checking order, that has no room.
RefusingScope(kv, key, size) ==
    LET full == {i \in DOMAIN Scopes : ~Fits(kv, key, size, Scopes[i])}
    IN IF full = {} THEN "none" ELSE Scopes[CHOOSE i \in full : \A j \in full : i <= j]

Live(kv, key, now) == key \in DOMAIN kv /\ kv[key].exp > now
Drop(kv, keys)     == Restrict(kv, DOMAIN kv \ keys)
Expired(kv, now)   == {k \in DOMAIN kv : kv[k].exp <= now}

\* _live_entry: a read drops the entry it finds expired.
Touch(kv, key, now) == Drop(kv, {key} \cap Expired(kv, now))

\* _reclaim: the expired entries of the refusing scope go.
Reclaim(kv, key, scope, now) ==
    IF scope = "none" THEN kv ELSE Drop(kv, Charged(kv, key, scope) \cap Expired(kv, now))

Put(kv, key, entry) ==
    [k \in DOMAIN kv \cup {key} |-> IF k = key THEN entry ELSE kv[k]]

\* _store: a write that finds no room reclaims the refusing scope and looks
\* again; when another scope still refuses, that one is reclaimed too, but the
\* write has failed.
Store(kv, key, val, size, exp, now) ==
    LET kv1     == Reclaim(kv, key, RefusingScope(kv, key, size), now)
        refused == RefusingScope(kv1, key, size)
    IN IF refused = "none"
       THEN [ok |-> TRUE, kv |-> Put(kv1, key, [val |-> val, size |-> size, exp |-> exp])]
       ELSE [ok |-> FALSE, kv |-> Reclaim(kv1, key, refused, now)]

\* set_if_absent: won when no live entry was there and the store took the write.
SetIfAbsent(kv, key, val, size, ttl, now) ==
    IF Live(kv, key, now) THEN [ok |-> TRUE, won |-> FALSE, kv |-> kv]
    ELSE LET s == Store(Touch(kv, key, now), key, val, size, now + ttl, now)
         IN [ok |-> s.ok, won |-> s.ok, kv |-> s.kv]

\* _incr: a counter already there keeps its deadline.
Incr(kv, key, size, ttl, now) ==
    LET live  == Live(kv, key, now)
        count == IF live THEN kv[key].val + 1 ELSE 1
        s     == Store(Touch(kv, key, now), key, count, size,
                       IF live THEN kv[key].exp ELSE now + ttl, now)
    IN [ok |-> s.ok, kv |-> s.kv, count |-> count]

=============================================================================
