---------------------------- MODULE LookupCaches ----------------------------
(***************************************************************************)
(* The two in-process caches that share a lookup between concurrent        *)
(* callers, and what invalidating them does to a lookup under way.         *)
(*                                                                         *)
(*   verdict  CachedTokenValidator and CachedActorStatus over SingleFlight:*)
(*            the lookup runs in its leader's task and dies with it; the   *)
(*            other callers then elect a new leader.                       *)
(*   preview  AsyncTTLCache: the load is a task of its own, cancelled only *)
(*            with its last waiter; clear() starts a new generation.       *)
(*                                                                         *)
(* The looked-up row of a key has versions: since[k][v] is when version v  *)
(* was committed, the last one is current.  A lookup is named after the    *)
(* caller that started it.                                                 *)
(***************************************************************************)
EXTENDS Naturals, Sequences, FiniteSets, SequencesExt

CONSTANTS
    Callers, Keys, Nobody,
    MaxEntries,    \* max_entries of the cache
    MaxInFlight,   \* max_in_flight of SingleFlight
    TTL,           \* cache_ttl_seconds, ttl_seconds
    FailureTTL,    \* failure_ttl_seconds
    Volatile,      \* bound: the keys whose row changes
    MaxVersions,   \* bound: versions of one row
    MaxTime        \* bound: the clock

ASSUME CacheAssumption ==
    /\ Nobody \notin Callers
    /\ Keys # {}
    /\ MaxEntries \in Nat \ {0}
    /\ MaxInFlight \in Nat \ {0}
    /\ Volatile \subseteq Keys
    /\ {TTL, FailureTTL, MaxTime, MaxVersions} \subseteq Nat

VARIABLES
    kind,      \* which of the two caches
    now,       \* the clock
    since,     \* commit times of each key's versions
    told,      \* last version of each key the cache was told of
    cache,     \* the entries, least recently used first
    shared,    \* the lookup registered for each key
    flight,    \* the lookups
    gen,       \* generation of the preview cache
    caller     \* the callers

vars == <<kind, now, since, told, cache, shared, flight, gen, caller>>

\* The version of a lookup that has not read yet, or that failed.
Nothing == 0

Current(k) == Len(since[k])

Grounded == [st |-> "none", key |-> CHOOSE k \in Keys : TRUE, began |-> 0,
             val |-> Nothing, gen |-> 0, joinable |-> FALSE]

\* A caller: what it waits for, and the version the cache had been told of when
\* it arrived.
Resting == [pc |-> "idle", key |-> CHOOSE k \in Keys : TRUE, on |-> Nobody, floor |-> 0]

Init ==
    /\ kind \in {"verdict", "preview"}
    /\ now = 0
    /\ since = [k \in Keys |-> <<0>>]
    /\ told = [k \in Keys |-> 1]
    /\ cache = <<>>
    /\ shared = [k \in Keys |-> Nobody]
    /\ flight = [c \in Callers |-> Grounded]
    /\ gen = 0
    /\ caller = [c \in Callers |-> Resting]

----------------------------------------------------------------------------
(* The cache itself. *)

Live(e, k) == e.key = k /\ now < e.until

\* The entries other than k's: the cache is an ordered dict, with one per key.
Without(k) ==
    IF \E i \in DOMAIN cache : cache[i].key = k
    THEN RemoveAt(cache, CHOOSE i \in DOMAIN cache : cache[i].key = k)
    ELSE cache

\* _store: the entry becomes the most recently used, the oldest one is evicted.
Store(e) ==
    LET all == Append(Without(e.key), e)
    IN  cache' = IF Len(all) > MaxEntries THEN Tail(all) ELSE all

\* Mutant: the verdict is stamped when it is stored.
VerdictUntilStored(f) == now + TTL

\* A verdict is stamped with the time its lookup began.
VerdictUntil(f) == flight[f].began + TTL

Until(f) == IF kind = "verdict" THEN VerdictUntil(f) ELSE now + TTL

\* Mutant: a load stores whatever generation it belongs to.
StoresAlways(f) == TRUE

\* A preview loaded before a clear is not stored after it.
Stores(f) == kind = "verdict" \/ flight[f].gen = gen

----------------------------------------------------------------------------
(* Callers. *)

\* A caller that is answered with version v, older than its floor or not.
Answer(v, floor) ==
    [Resting EXCEPT !.pc = IF v = Nothing THEN "failed" ELSE IF v < floor THEN "outdated" ELSE "done"]

\* A live entry answers at once and becomes the most recently used; a
\* remembered failure is raised again.
Hit(c, k) ==
    \E i \in DOMAIN cache :
        /\ Live(cache[i], k)
        /\ cache' = Append(Without(k), cache[i])
        /\ caller' = [caller EXCEPT ![c] = Answer(cache[i].val, told[k])]
        /\ UNCHANGED <<shared, flight>>

\* Waiting for k's lookup, or starting it.  With the map full, SingleFlight
\* runs the lookup of a new key unshared.
Room == kind = "preview" \/ Cardinality({k \in Keys : shared[k] # Nobody}) < MaxInFlight

Enter(c, k, floor) ==
    LET f == IF shared[k] = Nobody THEN c ELSE shared[k]
    IN  /\ caller' = [caller EXCEPT ![c] =
                            [pc |-> "waiting", key |-> k, on |-> f, floor |-> floor]]
        /\ IF shared[k] = Nobody
           THEN /\ flight' = [flight EXCEPT ![c] =
                     [st |-> "loading", key |-> k, began |-> now, val |-> Nothing,
                      gen |-> gen, joinable |-> Room]]
                /\ shared' = IF Room THEN [shared EXCEPT ![k] = c] ELSE shared
           ELSE UNCHANGED <<flight, shared>>

\* On a miss a preview that expired is dropped; a verdict stays, unserved, until
\* it is stored again or evicted.
Arrive(c, k) ==
    /\ caller[c].pc = "idle"
    /\ \/ Hit(c, k)
       \/ /\ ~\E i \in DOMAIN cache : Live(cache[i], k)
          /\ Enter(c, k, told[k])
          /\ cache' = IF kind = "preview" THEN Without(k) ELSE cache
    /\ UNCHANGED <<kind, now, since, told, gen>>

\* Mutant: a lookup that ends unregisters whichever lookup its key has.
UnregisterAny(f) == [shared EXCEPT ![flight[f].key] = Nobody]

\* A lookup that ends unregisters itself, and no later lookup of the key.
Unregister(f) ==
    IF shared[flight[f].key] = f THEN [shared EXCEPT ![flight[f].key] = Nobody] ELSE shared

Waiters(f) == {c \in Callers : caller[c].pc = "waiting" /\ caller[c].on = f}

\* The lookups after f ended so and the callers in leaving left; one that
\* nobody waits for any more is forgotten.
Over(f, leaving, how, v) ==
    [flight EXCEPT ![f] =
        IF Waiters(f) \subseteq leaving THEN Grounded ELSE [@ EXCEPT !.st = how, !.val = v]]

Left(c) == Over(caller[c].on, {c}, flight[caller[c].on].st, flight[caller[c].on].val)

\* SingleFlight's leader returns with its lookup; a preview's starter waits for
\* the load's task like the others.
Leading(f) == IF kind = "verdict" THEN {f} ELSE {}

\* The lookup's query runs.
Read(f) ==
    /\ flight[f].st = "loading"
    /\ flight[f].val = Nothing
    /\ flight' = [flight EXCEPT ![f].val = Current(flight[f].key)]
    /\ UNCHANGED <<kind, now, since, told, cache, shared, gen, caller>>

Lands(f, v) ==
    /\ caller' = [c \in Callers |->
                    IF c \in Leading(f) THEN Answer(v, caller[c].floor) ELSE caller[c]]
    /\ shared' = Unregister(f)
    /\ UNCHANGED <<kind, now, since, told, gen>>

Complete(f) ==
    /\ flight[f].st = "loading"
    /\ flight[f].val # Nothing
    /\ flight' = Over(f, Leading(f), "ok", flight[f].val)
    /\ IF Stores(f)
       THEN Store([key |-> flight[f].key, val |-> flight[f].val, until |-> Until(f)])
       ELSE UNCHANGED cache
    /\ Lands(f, flight[f].val)

\* A failed lookup reaches every waiter; a preview's failure is remembered.
Fail(f) ==
    /\ flight[f].st = "loading"
    /\ flight' = Over(f, Leading(f), "error", Nothing)
    /\ IF kind = "preview" /\ Stores(f) /\ FailureTTL > 0
       THEN Store([key |-> flight[f].key, val |-> Nothing, until |-> now + FailureTTL])
       ELSE UNCHANGED cache
    /\ Lands(f, Nothing)

\* A waiter resumes: with the result, with the exception, or, when the leader
\* was cancelled, by trying again.
Wake(c) ==
    /\ caller[c].pc = "waiting"
    /\ LET f == caller[c].on IN
       \/ /\ flight[f].st \in {"ok", "error"}
          /\ caller' = [caller EXCEPT ![c] = Answer(flight[f].val, @.floor)]
          /\ flight' = Left(c)
          /\ UNCHANGED shared
       \/ /\ flight[f].st = "cancelled"
          /\ kind = "verdict"
          /\ Enter(c, caller[c].key, caller[c].floor)
    /\ UNCHANGED <<kind, now, since, told, cache, gen>>

\* Whether cancelling a caller ends the lookup it waits on: SingleFlight's
\* leader does, and the last waiter of a preview.
EndsLookup(c) ==
    LET f == caller[c].on
    IN  /\ flight[f].st = "loading"
        /\ IF kind = "verdict" THEN f = c ELSE Waiters(f) = {c}

\* Mutant: the leader's future is left pending.
LookupEndsUnsaid(c) == Over(caller[c].on, {c}, "none", Nothing)

\* The future is cancelled, which tells the waiters to look up again.
LookupEnds(c) == Over(caller[c].on, {c}, "cancelled", Nothing)

Cancel(c) ==
    /\ caller[c].pc = "waiting"
    /\ caller' = [caller EXCEPT ![c] = [Resting EXCEPT !.pc = "gone"]]
    /\ IF EndsLookup(c)
       THEN /\ flight' = LookupEnds(c)
            /\ shared' = Unregister(caller[c].on)
       ELSE /\ flight' = IF flight[caller[c].on].st = "loading" THEN flight ELSE Left(c)
            /\ UNCHANGED shared
    /\ UNCHANGED <<kind, now, since, told, cache, gen>>

----------------------------------------------------------------------------
(* The rows behind the cache. *)

\* A change is committed: by this process, or by another one.
Change(k) ==
    /\ k \in Volatile
    /\ Current(k) < MaxVersions
    /\ since' = [since EXCEPT ![k] = Append(@, now)]
    /\ UNCHANGED <<kind, now, told, cache, shared, flight, gen, caller>>

\* The committing service evicts the key's verdicts; POST /catalog:refresh
\* clears every preview and detaches the loads under way.
Invalidate(k) ==
    /\ told[k] < Current(k)
    /\ told' = IF kind = "verdict" THEN [told EXCEPT ![k] = Current(k)]
               ELSE [j \in Keys |-> Current(j)]
    /\ IF kind = "verdict"
       THEN cache' = Without(k) /\ UNCHANGED <<shared, gen>>
       ELSE cache' = <<>> /\ shared' = [j \in Keys |-> Nobody] /\ gen' = gen + 1
    /\ UNCHANGED <<kind, now, since, flight, caller>>

Tick ==
    /\ now < MaxTime
    /\ now' = now + 1
    /\ UNCHANGED <<kind, since, told, cache, shared, flight, gen, caller>>

----------------------------------------------------------------------------

Next ==
    \/ \E c \in Callers :
         \/ \E k \in Keys : Arrive(c, k)
         \/ Wake(c)
         \/ Cancel(c)
    \/ \E f \in Callers : Read(f) \/ Complete(f) \/ Fail(f)
    \/ \E k \in Keys : Change(k) \/ Invalidate(k)
    \/ Tick

Spec == Init /\ [][Next]_vars

\* The event loop runs what is ready, and a query answers or fails.
FairSpec ==
    /\ Spec
    /\ \A c \in Callers : WF_vars(Wake(c)) /\ WF_vars(Read(c)) /\ WF_vars(Complete(c) \/ Fail(c))

----------------------------------------------------------------------------
(* Properties. *)

\* The stampede guard: at most one shared lookup of a key runs at a time, also
\* when a leader was cancelled and its waiters raced a new caller for the key,
\* and when a load that a clear detached ends after its successor began.
OneLookupPerKey ==
    \A f, g \in Callers :
        /\ flight[f].st = "loading" /\ flight[g].st = "loading"
        /\ flight[f].joinable /\ flight[g].joinable
        /\ flight[f].key = flight[g].key /\ flight[f].gen = flight[g].gen
        => f = g

\* "A verdict never outlives the TTL measured from when its DB read began"
\* (token_validation.py): a cached verdict that is still served was current
\* less than a TTL ago, however long its lookup took.
StaleVerdictsExpire ==
    kind = "verdict" =>
        \A i \in DOMAIN cache :
            LET e == cache[i] IN
            now < e.until /\ e.val < Current(e.key) => now < since[e.key][e.val + 1] + TTL

\* A caller that arrives after a clear is never answered with a preview read
\* before it: neither a load under way at the clear nor one a later caller
\* joined may bring the old document back (ttl_cache.py, clear).
ClearedStaysCleared ==
    kind = "preview" =>
        \A c \in Callers : caller[c].pc # "outdated"

\* Every caller that is not cancelled is answered, also when the leader it
\* waited on was (singleflight.py, do).
CallersAnswered ==
    \A c \in Callers : caller[c].pc = "waiting" ~> caller[c].pc # "waiting"

\* "Evicts stale entries immediately in single-process deployments"
\* (shared/broker/protocols.py): once the invalidation returned, a later
\* request is not answered with an older verdict.
InvalidationIsImmediate ==
    kind = "verdict" =>
        \A c \in Callers : caller[c].pc # "outdated"

=============================================================================
