------------------------- MODULE LookupCachesProofs -------------------------
(***************************************************************************)
(* Safety of the two lookup caches for any number of callers, keys,        *)
(* versions and clears, any TTL and any limit on entries and on lookups in *)
(* flight.                                                                 *)
(***************************************************************************)
EXTENDS LookupCaches, SequenceTheorems, TLAPS

(* The inductive invariant, part by part. *)

Entries == [key : Keys, val : Nat, until : Nat]

Flights == [st : {"none", "loading", "ok", "error", "cancelled"}, key : Keys, began : Nat,
            val : Nat, gen : Nat, joinable : BOOLEAN]

CallerStates == [pc : {"idle", "waiting", "done", "failed", "outdated", "gone"}, key : Keys,
                 on : Callers \cup {Nobody}, floor : Nat]

TypeOK ==
    /\ kind \in {"verdict", "preview"}
    /\ now \in Nat /\ gen \in Nat
    /\ since \in [Keys -> Seq(Nat)]
    /\ told \in [Keys -> Nat]
    /\ cache \in Seq(Entries)
    /\ shared \in [Keys -> Callers \cup {Nobody}]
    /\ flight \in [Callers -> Flights]
    /\ caller \in [Callers -> CallerStates]

\* No cache is told of a version its row does not have yet, and no lookup belongs
\* to a later generation.
Behind ==
    /\ \A k \in Keys : told[k] <= Current(k)
    /\ \A f \in Callers : flight[f].gen <= gen

\* A shared lookup of the present generation is the one its key is registered for.
Registered ==
    \A f \in Callers :
        flight[f].st = "loading" /\ flight[f].joinable /\ flight[f].gen = gen
            => shared[flight[f].key] = f

\* What a lookup or an entry says of a row: version v, and no later version was
\* committed before the moment t.
Reads(v, k, t) ==
    /\ v \in 1 .. Current(k)
    /\ v < Current(k) => t <= since[k][v + 1]

\* A lookup has read a version that was current when it began or later.
LookupsFresh ==
    \A f \in Callers :
        /\ flight[f].began <= now
        /\ flight[f].st = "loading" /\ flight[f].val # Nothing
              => Reads(flight[f].val, flight[f].key, flight[f].began)

\* A cached verdict ends a TTL after a moment at which it was current.
VerdictOK(e) ==
    /\ e.until <= now + TTL
    /\ e.val \in 1 .. Current(e.key)
    /\ e.val < Current(e.key) => e.until <= since[e.key][e.val + 1] + TTL

\* A version a caller with this floor may be given.
Serves(v, floor) == v = Nothing \/ floor <= v

\* A cached preview is not from before the last clear.
EntryOK(e) ==
    /\ kind = "verdict" => VerdictOK(e)
    /\ kind = "preview" => Serves(e.val, told[e.key])

EntriesFresh == \A i \in DOMAIN cache : EntryOK(cache[i])

\* A load that may still store, and one that a caller may still join, has read
\* nothing from before the last clear.
LoadsFresh ==
    kind = "preview" =>
        /\ \A f \in Callers : flight[f].st = "loading" /\ flight[f].gen = gen
              => Serves(flight[f].val, told[flight[f].key])
        /\ \A k \in Keys : shared[k] # Nobody =>
              /\ flight[shared[k]].st = "loading"
              /\ flight[shared[k]].key = k
              /\ flight[shared[k]].gen = gen

\* A caller waits on a lookup of its key that can only bring what the caller may
\* be given; a caller that has not arrived has no lookup.
CallersServed ==
    kind = "preview" =>
        \A c \in Callers :
            /\ caller[c].pc = "idle" => flight[c].st = "none"
            /\ caller[c].pc = "waiting" =>
                  /\ caller[c].on \in Callers
                  /\ flight[caller[c].on].st # "none"
                  /\ flight[caller[c].on].key = caller[c].key
                  /\ caller[c].floor <= told[caller[c].key]
                  /\ Serves(flight[caller[c].on].val, caller[c].floor)

LookupInv ==
    /\ Behind
    /\ Registered
    /\ OneLookupPerKey
    /\ LookupsFresh
    /\ LoadsFresh
    /\ CallersServed
    /\ ClearedStaysCleared

Inv == TypeOK /\ EntriesFresh /\ LookupInv

-----------------------------------------------------------------------------
(* The entries a step of the cache leaves. *)

LEMMA KeyExists == (CHOOSE k \in Keys : TRUE) \in Keys
BY CacheAssumption

LEMMA TTLsAreNat == TTL \in Nat /\ FailureTTL \in Nat
BY CacheAssumption

LEMMA RemovedAt ==
    ASSUME NEW S, NEW s \in Seq(S), NEW i \in DOMAIN s
    PROVE  /\ RemoveAt(s, i) \in Seq(S)
           /\ \A n \in DOMAIN RemoveAt(s, i) : \E m \in DOMAIN s : RemoveAt(s, i)[n] = s[m]
<1> DEFINE a == SubSeq(s, 1, i - 1)
           b == SubSeq(s, i + 1, Len(s))
<1>0. i \in 1 .. Len(s) /\ Len(s) \in Nat /\ DOMAIN s = 1 .. Len(s)
  OBVIOUS
<1>1. /\ a \in Seq(S) /\ Len(a) = i - 1
      /\ \A n \in 1 .. i - 1 : a[n] = s[n]
  <2>1. \A n \in 1 .. i - 1 : s[n] \in S
    BY <1>0
  <2> QED
    BY <1>0, <2>1, SubSeqProperties
<1>2. /\ b \in Seq(S) /\ Len(b) = Len(s) - i
      /\ \A n \in 1 .. Len(s) - i : b[n] = s[i + n]
  <2>1. \A n \in i + 1 .. Len(s) : s[n] \in S
    BY <1>0
  <2> QED
    BY <1>0, <2>1, SubSeqProperties
<1>3. RemoveAt(s, i) = a \o b
  BY DEF RemoveAt
<1> HIDE DEF a, b
<1> DEFINE r == a \o b
<1>4. /\ r \in Seq(S) /\ Len(r) = Len(a) + Len(b)
      /\ \A n \in 1 .. Len(a) + Len(b) : r[n] = IF n <= Len(a) THEN a[n] ELSE b[n - Len(a)]
  BY <1>1, <1>2, ConcatProperties
<1> HIDE DEF r
<1>5. \A n \in 1 .. Len(s) - 1 : r[n] = s[n] \/ r[n] = s[n + 1]
  <2> SUFFICES ASSUME NEW n \in 1 .. Len(s) - 1 PROVE r[n] = s[n] \/ r[n] = s[n + 1]
    OBVIOUS
  <2>1. CASE n <= i - 1
    BY <1>0, <1>1, <1>2, <1>4, <2>1
  <2>2. CASE ~(n <= i - 1)
    <3>1. n - (i - 1) \in 1 .. Len(s) - i /\ i + (n - (i - 1)) = n + 1 /\ n \in 1 .. Len(a) + Len(b)
      BY <1>0, <1>1, <1>2, <2>2, SMTT(30)
    <3>2. r[n] = b[n - (i - 1)]
      BY <1>1, <1>4, <2>2, <3>1
    <3>3. b[n - (i - 1)] = s[i + (n - (i - 1))]
      BY <1>2, <3>1
    <3> QED
      BY <3>1, <3>2, <3>3
  <2> QED
    BY <2>1, <2>2
<1>6. DOMAIN r = 1 .. Len(s) - 1 /\ r \in Seq(S)
  BY <1>0, <1>1, <1>2, <1>4
<1>7. \A n \in DOMAIN r : \E m \in DOMAIN s : r[n] = s[m]
  BY <1>0, <1>5, <1>6
<1> QED
  BY <1>3, <1>6, <1>7 DEF r

\* Without drops at most an entry and adds none.
LEMMA WithoutKeeps ==
    ASSUME cache \in Seq(Entries), NEW k
    PROVE  /\ Without(k) \in Seq(Entries)
           /\ \A n \in DOMAIN Without(k) : \E m \in DOMAIN cache : Without(k)[n] = cache[m]
<1>1. CASE \E i \in DOMAIN cache : cache[i].key = k
  <2>1. PICK i \in DOMAIN cache : Without(k) = RemoveAt(cache, i)
    BY <1>1 DEF Without
  <2>2. /\ RemoveAt(cache, i) \in Seq(Entries)
        /\ \A n \in DOMAIN RemoveAt(cache, i) : \E m \in DOMAIN cache : RemoveAt(cache, i)[n] = cache[m]
    BY <2>1, RemovedAt
  <2> QED
    BY <2>1, <2>2, Zenon
<1>2. CASE ~\E i \in DOMAIN cache : cache[i].key = k
  BY <1>2 DEF Without
<1> QED
  BY <1>1, <1>2

\* A new most recently used entry joins what Without keeps.
LEMMA AppendKeeps ==
    ASSUME cache \in Seq(Entries), NEW k, NEW e \in Entries
    PROVE  /\ Append(Without(k), e) \in Seq(Entries) /\ Append(Without(k), e) # <<>>
           /\ \A n \in DOMAIN Append(Without(k), e) :
                 \/ Append(Without(k), e)[n] = e
                 \/ \E m \in DOMAIN cache : Append(Without(k), e)[n] = cache[m]
<1> DEFINE s == Without(k)
           t == Append(s, e)
<1>1. s \in Seq(Entries) /\ \A n \in DOMAIN s : \E m \in DOMAIN cache : s[n] = cache[m]
  BY WithoutKeeps
<1> HIDE DEF s
<1>2. /\ t \in Seq(Entries) /\ t # <<>> /\ Len(t) = Len(s) + 1 /\ t[Len(s) + 1] = e
      /\ \A n \in 1 .. Len(s) : t[n] = s[n]
  BY <1>1, AppendProperties
<1> HIDE DEF t
<1>3. DOMAIN t = 1 .. Len(s) + 1 /\ DOMAIN s = 1 .. Len(s) /\ Len(s) \in Nat
  BY <1>1, <1>2
<1>4. \A n \in DOMAIN t : n = Len(s) + 1 \/ n \in DOMAIN s
  BY <1>3
<1>5. ASSUME NEW n \in DOMAIN t PROVE t[n] = e \/ \E m \in DOMAIN cache : t[n] = cache[m]
  <2>1. CASE n = Len(s) + 1
    BY <1>2, <2>1
  <2>2. CASE n \in DOMAIN s
    <3>1. t[n] = s[n]
      BY <1>2, <1>3, <2>2
    <3> QED
      BY <1>1, <2>2, <3>1
  <2> QED
    BY <1>4, <2>1, <2>2
<1> QED
  BY <1>2, <1>5 DEF s, t

\* _store adds its entry, and may evict the oldest one.
LEMMA StoreKeeps ==
    ASSUME cache \in Seq(Entries), NEW e \in Entries, Store(e)
    PROVE  /\ cache' \in Seq(Entries)
           /\ \A n \in DOMAIN cache' :
                 \/ cache'[n] = e
                 \/ \E m \in DOMAIN cache : cache'[n] = cache[m]
<1> DEFINE all == Append(Without(e.key), e)
<1>1. /\ all \in Seq(Entries) /\ all # <<>>
      /\ \A n \in DOMAIN all : all[n] = e \/ \E m \in DOMAIN cache : all[n] = cache[m]
  <2> DEFINE k == e.key
             t == Append(Without(k), e)
  <2> HIDE DEF k
  <2>1. /\ t \in Seq(Entries) /\ t # <<>>
        /\ \A n \in DOMAIN t : t[n] = e \/ \E m \in DOMAIN cache : t[n] = cache[m]
    BY AppendKeeps
  <2> QED
    BY <2>1 DEF k
<1>2. /\ Tail(all) \in Seq(Entries)
      /\ \A n \in DOMAIN Tail(all) : n + 1 \in DOMAIN all /\ Tail(all)[n] = all[n + 1]
  <2> HIDE DEF all
  <2> QED
    BY <1>1, HeadTailProperties
<1>3. cache' = Tail(all) \/ cache' = all
  BY DEF Store
<1> HIDE DEF all
<1>4. CASE cache' = Tail(all)
  <2>1. ASSUME NEW n \in DOMAIN cache'
        PROVE  cache'[n] = e \/ \E m \in DOMAIN cache : cache'[n] = cache[m]
    <3>1. n + 1 \in DOMAIN all /\ cache'[n] = all[n + 1]
      BY <1>2, <1>4, <2>1
    <3> QED
      BY <1>1, <3>1
  <2> QED
    BY <1>2, <1>4, <2>1
<1>5. CASE cache' = all
  BY <1>1, <1>5, Zenon
<1> QED
  BY <1>3, <1>4, <1>5

\* Old entries stay good while clock, rows and clears stay as they are.
LEMMA EntriesFrame ==
    ASSUME EntriesFresh, UNCHANGED <<kind, now, since, told>>,
           \A n \in DOMAIN cache' :
               EntryOK(cache'[n]) \/ \E m \in DOMAIN cache : cache'[n] = cache[m]
    PROVE  EntriesFresh'
BY DEF EntriesFresh, EntryOK, VerdictOK, Serves, Current

-----------------------------------------------------------------------------
(* One lemma per action. *)

LEMMA InitInv == Init => Inv
<1> SUFFICES ASSUME Init PROVE Inv
  OBVIOUS
<1> USE KeyExists, CacheAssumption DEF Init, Grounded, Resting, Nothing, Current
<1>1. TypeOK
  BY DEF TypeOK, Entries, Flights, CallerStates
<1>2. EntriesFresh
  BY DEF EntriesFresh
<1>3. Behind /\ Registered /\ OneLookupPerKey /\ LookupsFresh
  BY DEF Behind, Registered, OneLookupPerKey, LookupsFresh
<1>4. LoadsFresh /\ CallersServed /\ ClearedStaysCleared
  BY DEF LoadsFresh, CallersServed, ClearedStaysCleared
<1> QED
  BY <1>1, <1>2, <1>3, <1>4 DEF Inv, LookupInv

LEMMA StutterInv == ASSUME Inv, UNCHANGED vars PROVE Inv'
BY DEF vars, Inv, LookupInv, TypeOK, EntriesFresh, EntryOK, VerdictOK, Serves, Behind, Registered,
       OneLookupPerKey, LookupsFresh, Reads, LoadsFresh, CallersServed, ClearedStaysCleared, Current

LEMMA TickInv == ASSUME Inv, Tick PROVE Inv'
<1> USE CacheAssumption DEF Inv, Tick, TypeOK
<1>1. TypeOK'
  OBVIOUS
<1>2. EntriesFresh'
  <2> SUFFICES ASSUME NEW i \in DOMAIN cache PROVE EntryOK(cache[i])'
    BY DEF EntriesFresh
  <2>1. EntryOK(cache[i]) /\ cache[i] \in Entries
    BY DEF EntriesFresh
  <2> QED
    BY <2>1, SMTT(30) DEF EntryOK, VerdictOK, Serves, Current, Entries
<1>3. LookupInv'
  BY DEF LookupInv, Behind, Registered, OneLookupPerKey, LookupsFresh, Reads, LoadsFresh, Serves,
         CallersServed, ClearedStaysCleared, Current, Flights
<1> QED
  BY <1>1, <1>2, <1>3

\* What follows a version once its row has one version more.
LEMMA NextVersion ==
    ASSUME NEW L \in Nat, NEW s, NEW s2, NEW v \in 1 .. L,
           \A n \in 1 .. L : s2[n] = s[n]
    PROVE  v \in 1 .. L + 1 /\ (v = L \/ (v < L /\ s2[v + 1] = s[v + 1]))
<1>1. v = L \/ (v < L /\ v + 1 \in 1 .. L)
  OBVIOUS
<1> QED
  BY <1>1

\* A commit: whatever was current until now may be served for a TTL more.
LEMMA ChangeInv == ASSUME Inv, NEW k \in Keys, Change(k) PROVE Inv'
<1> USE CacheAssumption DEF Inv, Change, TypeOK
<1>0. /\ Len(since[k]) \in Nat /\ Len(since'[k]) = Len(since[k]) + 1
      /\ since'[k][Len(since[k]) + 1] = now
      /\ \A n \in 1 .. Len(since[k]) : since'[k][n] = since[k][n]
      /\ \A j \in Keys : j # k => since'[j] = since[j]
  OBVIOUS
<1>1. TypeOK'
  OBVIOUS
<1>2. EntriesFresh'
  <2> SUFFICES ASSUME NEW i \in DOMAIN cache PROVE EntryOK(cache[i])'
    BY DEF EntriesFresh
  <2>1. EntryOK(cache[i]) /\ cache[i] \in Entries
    BY DEF EntriesFresh
  <2>2. CASE cache[i].key = k
    <3>1. CASE kind = "verdict"
      <4> DEFINE v == cache[i].val
                 u == cache[i].until
      <4>1. /\ u \in Nat /\ v \in 1 .. Len(since[k]) /\ u <= now + TTL
            /\ v < Len(since[k]) => u <= since[k][v + 1] + TTL
        BY <2>1, <2>2, <3>1 DEF EntryOK, VerdictOK, Entries, Current
      <4> HIDE DEF u, v, Inv, Change, TypeOK
      <4>2. v \in 1 .. Len(since'[k]) /\ u <= since'[k][v + 1] + TTL
        <5>1. /\ v \in 1 .. Len(since[k]) + 1
              /\ \/ v = Len(since[k])
                 \/ v < Len(since[k]) /\ since'[k][v + 1] = since[k][v + 1]
          BY <1>0, <4>1, NextVersion
        <5>2. CASE v = Len(since[k])
          <6>1. since'[k][v + 1] = now
            BY <1>0, <5>2
          <6> QED
            BY <1>0, <4>1, <5>1, <6>1
        <5>3. CASE v < Len(since[k]) /\ since'[k][v + 1] = since[k][v + 1]
          BY <1>0, <4>1, <5>1, <5>3
        <5> QED
          BY <5>1, <5>2, <5>3
      <4> QED
        BY <2>2, <3>1, <4>1, <4>2 DEF u, v, EntryOK, VerdictOK, Current, Change
    <3>2. CASE kind # "verdict"
      BY <2>1, <3>2 DEF EntryOK, Serves
    <3> QED
      BY <3>1, <3>2
  <2>3. CASE cache[i].key # k
    BY <1>0, <2>1, <2>3 DEF EntryOK, VerdictOK, Serves, Entries, Current
  <2> QED
    BY <2>2, <2>3
<1>3. LookupsFresh'
  <2> SUFFICES ASSUME NEW f \in Callers, flight[f].st = "loading", flight[f].val # Nothing
               PROVE  Reads(flight[f].val, flight[f].key, flight[f].began)'
    BY DEF LookupInv, LookupsFresh
  <2>1. /\ Reads(flight[f].val, flight[f].key, flight[f].began)
        /\ flight[f] \in Flights /\ flight[f].began <= now
    BY DEF LookupInv, LookupsFresh
  <2>2. CASE flight[f].key = k
    <3> DEFINE v == flight[f].val
               t == flight[f].began
    <3>1. /\ t \in Nat /\ t <= now /\ v \in 1 .. Len(since[k])
          /\ v < Len(since[k]) => t <= since[k][v + 1]
      BY <2>1, <2>2 DEF Reads, Flights, Current
    <3> HIDE DEF v, t
    <3>2. v \in 1 .. Len(since'[k]) /\ t <= since'[k][v + 1]
      <4>1. /\ v \in 1 .. Len(since[k]) + 1
            /\ \/ v = Len(since[k])
               \/ v < Len(since[k]) /\ since'[k][v + 1] = since[k][v + 1]
        BY <1>0, <3>1, NextVersion, SMTT(30)
      <4>2. CASE v = Len(since[k])
        <5>1. since'[k][v + 1] = now
          BY <1>0, <4>2
        <5> QED
          BY <1>0, <3>1, <4>1, <5>1
      <4>3. CASE v < Len(since[k]) /\ since'[k][v + 1] = since[k][v + 1]
        BY <1>0, <3>1, <4>1, <4>3
      <4> QED
        BY <4>1, <4>2, <4>3
    <3> QED
      BY <2>2, <3>2 DEF v, t, Reads, Current
  <2>3. CASE flight[f].key # k
    BY <1>0, <2>1, <2>3 DEF Reads, Flights, Current
  <2> QED
    BY <2>2, <2>3
<1>4. Behind'
  BY <1>0 DEF LookupInv, Behind, Current
<1> QED
  BY <1>1, <1>2, <1>3, <1>4
  DEF LookupInv, Registered, OneLookupPerKey, LoadsFresh, Serves, CallersServed, ClearedStaysCleared

\* An eviction drops a verdict; a clear starts a generation no lookup belongs to.
LEMMA InvalidateInv == ASSUME Inv, NEW k \in Keys, Invalidate(k) PROVE Inv'
<1> USE DEF Inv, Invalidate, TypeOK
<1>1. CASE kind = "verdict"
  <2>1. /\ cache' \in Seq(Entries)
        /\ \A n \in DOMAIN cache' : \E m \in DOMAIN cache : cache'[n] = cache[m]
    BY <1>1, WithoutKeeps
  <2>2. TypeOK'
    BY <1>1, <2>1 DEF Current
  <2>3. EntriesFresh'
    BY <1>1, <2>1 DEF EntriesFresh, EntryOK, VerdictOK, Current
  <2>4. Behind'
    BY <1>1 DEF LookupInv, Behind, Current
  <2> QED
    BY <1>1, <2>2, <2>3, <2>4
    DEF LookupInv, Registered, OneLookupPerKey, LookupsFresh, Reads, LoadsFresh, CallersServed,
        ClearedStaysCleared, Current
<1>2. CASE kind = "preview"
  <2>1. /\ cache' = <<>> /\ gen' = gen + 1 /\ shared' = [j \in Keys |-> Nobody]
        /\ told' = [j \in Keys |-> Current(j)]
        /\ UNCHANGED <<kind, now, since, flight, caller>>
    BY <1>2
  <2>2. TypeOK'
    BY <2>1 DEF Current
  <2>3. EntriesFresh'
    BY <2>1 DEF EntriesFresh
  <2>4. Behind' /\ \A f \in Callers : flight[f].gen # gen'
    BY <2>1, SMTT(30) DEF LookupInv, Behind, Current, Flights
  <2>5. Registered' /\ LoadsFresh'
    BY <2>1, <2>4 DEF Registered, LoadsFresh
  <2>6. OneLookupPerKey' /\ LookupsFresh' /\ ClearedStaysCleared'
    BY <2>1 DEF LookupInv, OneLookupPerKey, LookupsFresh, Reads, ClearedStaysCleared, Current
  <2>7. CallersServed'
    <3>1. \A j \in Keys : told[j] <= told'[j] /\ told[j] \in Nat /\ told'[j] \in Nat
      BY <2>1, <2>2 DEF LookupInv, Behind
    <3> QED
      BY <1>2, <2>1, <3>1 DEF LookupInv, CallersServed, CallerStates, Serves
  <2> QED
    BY <2>2, <2>3, <2>4, <2>5, <2>6, <2>7 DEF LookupInv
<1> QED
  BY <1>1, <1>2

\* The query reads the current version, which every clear and every floor is
\* behind.
LEMMA ReadInv == ASSUME Inv, NEW f \in Callers, Read(f) PROVE Inv'
<1> USE DEF Inv, Read, TypeOK
<1>0. flight[f] \in Flights /\ flight[f].key \in Keys /\ Current(flight[f].key) \in Nat
  BY DEF Flights, Current
<1> DEFINE l == [flight[f] EXCEPT !.val = Current(flight[f].key)]
<1>1. flight' = [flight EXCEPT ![f] = l]
  OBVIOUS
<1>2. /\ l \in Flights /\ l.val = Current(flight[f].key)
      /\ l.st = flight[f].st /\ l.key = flight[f].key /\ l.gen = flight[f].gen
      /\ l.began = flight[f].began /\ l.joinable = flight[f].joinable
  BY ONLY <1>0 DEF Flights
<1> HIDE DEF l
<1>3. /\ flight' \in [Callers -> Flights] /\ flight'[f] = l
      /\ \A g \in Callers : g # f => flight'[g] = flight[g]
  BY <1>1, <1>2
<1>4. \A g \in Callers :
        /\ flight'[g].st = flight[g].st /\ flight'[g].key = flight[g].key
        /\ flight'[g].gen = flight[g].gen /\ flight'[g].began = flight[g].began
        /\ flight'[g].joinable = flight[g].joinable
        /\ flight'[g].val = flight[g].val \/ (g = f /\ flight'[g].val = Current(flight[g].key))
  BY <1>2, <1>3
<1>5. /\ flight[f].st = "loading" /\ UNCHANGED <<kind, now, since, told, cache, shared, gen, caller>>
      /\ LookupInv /\ EntriesFresh /\ TypeOK
  BY DEF Inv, Read
<1>6. \A k \in Keys : Current(k)' = Current(k) /\ Current(k) \in Nat /\ told[k] \in Nat
                      /\ told[k] <= Current(k)
  BY <1>5 DEF LookupInv, Behind, Current
<1>7. TypeOK'
  BY <1>3, <1>5
<1> HIDE DEF Inv, Read, TypeOK
<1>8. EntriesFresh'
  BY <1>5, EntriesFrame
<1>9. Behind' /\ Registered' /\ OneLookupPerKey' /\ ClearedStaysCleared'
  BY <1>4, <1>5, <1>6
  DEF LookupInv, Behind, Registered, OneLookupPerKey, ClearedStaysCleared, Current
<1>10. LookupsFresh'
  <2> SUFFICES ASSUME NEW g \in Callers
               PROVE  /\ flight'[g].began <= now
                      /\ flight'[g].st = "loading" /\ flight'[g].val # Nothing
                           => Reads(flight[g].val, flight[g].key, flight[g].began)'
    BY <1>5 DEF LookupsFresh
  <2>1. /\ flight[g].began <= now
        /\ flight[g].st = "loading" /\ flight[g].val # Nothing
              => Reads(flight[g].val, flight[g].key, flight[g].began)
    BY <1>5 DEF LookupInv, LookupsFresh
  <2>2. CASE flight'[g].val = flight[g].val
    BY <1>4, <1>5, <2>1, <2>2 DEF Reads, Current
  <2>3. CASE g = f /\ flight'[g].val = Current(flight[g].key)
    BY <1>0, <1>4, <1>5, <1>6, <2>1, <2>3 DEF Reads, Nothing, Current
  <2> QED
    BY <1>4, <2>2, <2>3
<1>11. LoadsFresh'
  <2> SUFFICES ASSUME kind = "preview" PROVE LoadsFresh'
    BY <1>5 DEF LoadsFresh
  <2>1. ASSUME NEW g \in Callers, flight'[g].st = "loading", flight'[g].gen = gen
        PROVE  Serves(flight'[g].val, told[flight'[g].key])
    BY <1>0, <1>4, <1>5, <1>6, <2>1 DEF LookupInv, LoadsFresh, Serves
  <2>2. ASSUME NEW j \in Keys, shared[j] # Nobody
        PROVE  /\ flight'[shared[j]].st = "loading"
               /\ flight'[shared[j]].key = j
               /\ flight'[shared[j]].gen = gen
    <3>1. shared[j] \in Callers
      BY <1>5, <2>2 DEF TypeOK
    <3> QED
      BY <1>4, <1>5, <2>2, <3>1 DEF LookupInv, LoadsFresh
  <2> QED
    BY <1>5, <2>1, <2>2 DEF LoadsFresh, Serves
<1>12. CallersServed'
  <2> SUFFICES ASSUME kind = "preview", NEW c \in Callers
               PROVE  /\ caller[c].pc = "idle" => flight'[c].st = "none"
                      /\ caller[c].pc = "waiting" =>
                            /\ caller[c].on \in Callers
                            /\ flight'[caller[c].on].st # "none"
                            /\ flight'[caller[c].on].key = caller[c].key
                            /\ caller[c].floor <= told[caller[c].key]
                            /\ Serves(flight'[caller[c].on].val, caller[c].floor)
    BY <1>5 DEF CallersServed, Serves
  <2>1. CASE caller[c].pc = "waiting"
    <3> DEFINE o == caller[c].on
    <3>1. /\ o \in Callers /\ flight[o].st # "none" /\ flight[o].key = caller[c].key
          /\ caller[c].floor <= told[caller[c].key] /\ Serves(flight[o].val, caller[c].floor)
      BY <1>5, <2>1 DEF LookupInv, CallersServed
    <3>2. caller[c].floor \in Nat /\ caller[c].key \in Keys
      BY <1>5 DEF TypeOK, CallerStates
    <3> HIDE DEF o
    <3>3. Serves(flight'[o].val, caller[c].floor)
      BY <1>4, <1>6, <3>1, <3>2 DEF Serves
    <3> QED
      BY <1>4, <2>1, <3>1, <3>3 DEF o
  <2>2. CASE caller[c].pc # "waiting"
    BY <1>4, <1>5, <2>2 DEF LookupInv, CallersServed
  <2> QED
    BY <2>1, <2>2
<1> QED
  BY <1>7, <1>8, <1>9, <1>10, <1>11, <1>12 DEF Inv, LookupInv

LEMMA GroundedType == Grounded \in Flights /\ Grounded.st = "none" /\ Grounded.gen = 0
                      /\ Grounded.began = 0
BY KeyExists DEF Grounded, Flights, Nothing

LEMMA AnswerType ==
    ASSUME NEW v, NEW floor
    PROVE  /\ Answer(v, floor) \in CallerStates
           /\ Answer(v, floor).pc \notin {"idle", "waiting"}
           /\ Serves(v, floor) /\ v \in Nat /\ floor \in Nat => Answer(v, floor).pc # "outdated"
<1>1. Resting \in CallerStates
  BY KeyExists DEF Resting, CallerStates
<1> DEFINE how == IF v = Nothing THEN "failed" ELSE IF v < floor THEN "outdated" ELSE "done"
<1>2. Answer(v, floor) = [Resting EXCEPT !.pc = how]
  BY DEF Answer
<1>3. how \in {"failed", "outdated", "done"}
  OBVIOUS
<1>4. Serves(v, floor) /\ v \in Nat /\ floor \in Nat => how # "outdated"
  BY DEF Serves
<1> HIDE DEF how
<1>5. Answer(v, floor) \in CallerStates /\ Answer(v, floor).pc = how
  BY <1>1, <1>2, <1>3 DEF CallerStates
<1> QED
  BY <1>3, <1>4, <1>5

\* What the end of a lookup f does to the lookups: f is no longer under way, and
\* all others are as they were.
LEMMA OverIs ==
    ASSUME TypeOK, NEW f \in Callers, NEW leaving, NEW v \in Nat,
           NEW how \in {"none", "ok", "error", "cancelled"},
           flight' = Over(f, leaving, how, v)
    PROVE  /\ flight' \in [Callers -> Flights]
           /\ \A g \in Callers : g # f => flight'[g] = flight[g]
           /\ flight'[f].st \in {"none", how} /\ flight'[f].st # "loading"
           /\ flight'[f].gen <= flight[f].gen /\ flight'[f].began <= flight[f].began
           /\ ~(Waiters(f) \subseteq leaving) =>
                 flight'[f].st = how /\ flight'[f].val = v /\ flight'[f].key = flight[f].key
<1> USE DEF TypeOK
<1>0. flight[f] \in Flights /\ flight[f].gen \in Nat /\ flight[f].began \in Nat
  BY DEF Flights
<1>1. \A g \in Callers : g # f => flight'[g] = flight[g]
  BY DEF Over
<1>2. CASE Waiters(f) \subseteq leaving
  <2>1. flight' = [flight EXCEPT ![f] = Grounded]
    BY <1>2 DEF Over
  <2> QED
    BY <1>0, <1>1, <1>2, <2>1, GroundedType
<1>3. CASE ~(Waiters(f) \subseteq leaving)
  <2> DEFINE e == [flight[f] EXCEPT !.st = how, !.val = v]
  <2>1. flight' = [flight EXCEPT ![f] = e]
    BY <1>3 DEF Over
  <2>2. /\ e \in Flights /\ e.st = how /\ e.val = v
        /\ e.key = flight[f].key /\ e.gen = flight[f].gen /\ e.began = flight[f].began
    BY <1>0 DEF Flights
  <2> HIDE DEF e
  <2> QED
    BY <1>0, <1>1, <1>3, <2>1, <2>2
<1> QED
  BY <1>2, <1>3

\* A lookup that ends leaves the registration of every other lookup alone.
LEMMA EndKeepsLookups ==
    ASSUME Inv, NEW f \in Callers,
           flight' \in [Callers -> Flights],
           \A g \in Callers : g # f => flight'[g] = flight[g],
           flight'[f].st # "loading",
           flight'[f].gen <= flight[f].gen, flight'[f].began <= flight[f].began,
           shared' = Unregister(f) \/ (flight[f].st # "loading" /\ UNCHANGED shared),
           UNCHANGED <<kind, now, since, told, gen>>
    PROVE  /\ shared' \in [Keys -> Callers \cup {Nobody}]
           /\ Behind' /\ Registered' /\ OneLookupPerKey' /\ LookupsFresh' /\ LoadsFresh'
<1> USE DEF Inv, LookupInv, TypeOK
<1>0. /\ flight[f] \in Flights /\ flight'[f] \in Flights /\ flight[f].key \in Keys
      /\ \A k \in Keys : shared'[k] = shared[k] \/ (shared[k] = f /\ shared'[k] = Nobody)
      /\ shared' \in [Keys -> Callers \cup {Nobody}]
  BY DEF Flights, Unregister
<1>1. Behind'
  <2>1. flight'[f].gen \in Nat /\ flight[f].gen \in Nat /\ flight[f].gen <= gen
    BY <1>0 DEF Flights, Behind
  <2>2. flight'[f].gen <= gen
    BY <2>1
  <2> QED
    BY <2>2 DEF Behind, Current
<1>2. Registered' /\ OneLookupPerKey'
  <2>1. \A g \in Callers : flight'[g].st = "loading" => g # f /\ flight'[g] = flight[g]
    OBVIOUS
  <2>2. \A g \in Callers : flight[g].key \in Keys
    BY DEF Flights
  <2>3. Registered /\ OneLookupPerKey /\ gen' = gen
    OBVIOUS
  <2> HIDE DEF Inv, TypeOK
  <2>4. Registered'
    BY <1>0, <2>1, <2>2, <2>3 DEF Registered
  <2>5. OneLookupPerKey'
    BY <2>1, <2>3 DEF OneLookupPerKey
  <2> QED
    BY <2>4, <2>5
<1>3. LookupsFresh'
  <2>1. flight'[f].began \in Nat /\ flight[f].began \in Nat /\ flight[f].began <= now
    BY <1>0 DEF Flights, LookupsFresh
  <2>2. flight'[f].began <= now
    BY <2>1
  <2> QED
    BY <2>2 DEF LookupsFresh, Reads, Current
<1>4. LoadsFresh'
  <2>1. CASE kind # "preview"
    BY <2>1 DEF LoadsFresh
  <2>2. CASE kind = "preview"
    <3>1. ASSUME NEW k \in Keys, shared[k] = f PROVE shared'[k] = Nobody
      <4>1. flight[f].st = "loading" /\ flight[f].key = k
        BY <2>2, <3>1, CacheAssumption DEF LoadsFresh
      <4> QED
        BY <3>1, <4>1 DEF Unregister
    <3>2. ASSUME NEW k \in Keys, shared'[k] # Nobody
          PROVE  shared'[k] = shared[k] /\ shared[k] \in Callers /\ shared[k] # f
      BY <1>0, <3>1, <3>2
    <3>3. ASSUME NEW g \in Callers, flight'[g].st = "loading"
          PROVE  g # f /\ flight'[g] = flight[g]
      BY <3>3
    <3> QED
      BY <2>2, <3>2, <3>3 DEF LoadsFresh, Serves
  <2> QED
    BY <2>1, <2>2
<1> QED
  BY <1>0, <1>1, <1>2, <1>3, <1>4

\* A lookup that lands: its leader is answered with it, the others when they wake.
LEMMA LandsInv ==
    ASSUME Inv, NEW f \in Callers, flight[f].st = "loading",
           NEW how \in {"ok", "error"}, NEW v \in {flight[f].val, Nothing},
           flight' = Over(f, Leading(f), how, v), Lands(f, v),
           cache' \in Seq(Entries), EntriesFresh'
    PROVE  Inv'
<1> USE DEF Inv, TypeOK
<1>0. v \in Nat /\ UNCHANGED <<kind, now, since, told, gen>> /\ shared' = Unregister(f)
  BY DEF Flights, Nothing, Lands
<1>1. /\ flight' \in [Callers -> Flights]
      /\ \A g \in Callers : g # f => flight'[g] = flight[g]
      /\ flight'[f].st \in {"none", how} /\ flight'[f].st # "loading"
      /\ flight'[f].gen <= flight[f].gen /\ flight'[f].began <= flight[f].began
      /\ ~(Waiters(f) \subseteq Leading(f)) =>
            flight'[f].st = how /\ flight'[f].val = v /\ flight'[f].key = flight[f].key
  BY <1>0, OverIs
<1>2. /\ shared' \in [Keys -> Callers \cup {Nobody}]
      /\ Behind' /\ Registered' /\ OneLookupPerKey' /\ LookupsFresh' /\ LoadsFresh'
  <2> HIDE DEF Inv, TypeOK
  <2> QED
    BY <1>0, <1>1, EndKeepsLookups
<1>3. caller' \in [Callers -> CallerStates]
  <2>1. \A c \in Callers : Answer(v, caller[c].floor) \in CallerStates
    BY AnswerType
  <2>2. \A c \in Callers : caller[c] \in CallerStates
    OBVIOUS
  <2>3. caller' = [c \in Callers |->
                    IF c \in Leading(f) THEN Answer(v, caller[c].floor) ELSE caller[c]]
    BY DEF Lands
  <2> QED
    BY <2>1, <2>2, <2>3, Zenon
<1>4. CallersServed' /\ ClearedStaysCleared'
  <2>1. CASE kind # "preview"
    BY <1>0, <2>1 DEF CallersServed, ClearedStaysCleared
  <2>2. CASE kind = "preview"
    <3>1. caller' = caller /\ Leading(f) = {}
      BY <2>2 DEF Lands, Leading
    <3>2. ClearedStaysCleared'
      BY <1>0, <3>1 DEF LookupInv, ClearedStaysCleared
    <3>3. ASSUME NEW c \in Callers, caller[c].pc = "waiting", caller[c].on = f
          PROVE  /\ flight'[f].st # "none" /\ flight'[f].key = flight[f].key
                 /\ flight'[f].val \in {flight[f].val, Nothing}
      BY <1>1, <3>1, <3>3 DEF Waiters
    <3>4. CallersServed'
      <4>1. ASSUME NEW c \in Callers, caller[c].pc = "idle" PROVE flight'[c].st = "none"
        <5>1. flight[c].st = "none" /\ c # f
          BY <2>2, <4>1 DEF LookupInv, CallersServed
        <5> QED
          BY <1>1, <5>1
      <4>2. ASSUME NEW c \in Callers, caller[c].pc = "waiting"
            PROVE  /\ caller[c].on \in Callers
                   /\ flight'[caller[c].on].st # "none"
                   /\ flight'[caller[c].on].key = caller[c].key
                   /\ caller[c].floor <= told[caller[c].key]
                   /\ Serves(flight'[caller[c].on].val, caller[c].floor)
        <5>1. /\ caller[c].on \in Callers
              /\ flight[caller[c].on].st # "none"
              /\ flight[caller[c].on].key = caller[c].key
              /\ caller[c].floor <= told[caller[c].key]
              /\ Serves(flight[caller[c].on].val, caller[c].floor)
          BY <2>2, <4>2 DEF LookupInv, CallersServed
        <5>2. CASE caller[c].on = f
          BY <3>3, <4>2, <5>1, <5>2 DEF Serves
        <5>3. CASE caller[c].on # f
          <6>1. flight'[caller[c].on] = flight[caller[c].on]
            BY <1>1, <5>1, <5>3
          <6> QED
            BY <5>1, <6>1
        <5> QED
          BY <5>2, <5>3
      <4> QED
        BY <1>0, <3>1, <4>1, <4>2 DEF CallersServed, Serves
    <3> QED
      BY <3>2, <3>4
  <2> QED
    BY <2>1, <2>2
<1> QED
  BY <1>0, <1>1, <1>2, <1>3, <1>4 DEF LookupInv

\* A verdict is stored for a TTL from when its lookup began, a preview only in
\* the generation it was loaded in.
LEMMA CompleteInv == ASSUME Inv, NEW f \in Callers, Complete(f) PROVE Inv'
<1> DEFINE e == [key |-> flight[f].key, val |-> flight[f].val, until |-> Until(f)]
<1>0. /\ flight[f] \in Flights /\ flight[f].st = "loading" /\ flight[f].val # Nothing
      /\ UNCHANGED <<kind, now, since, told>> /\ cache \in Seq(Entries)
      /\ kind \in {"verdict", "preview"} /\ now \in Nat
  BY DEF Complete, Lands, Inv, TypeOK
<1>1. CASE Stores(f)
  <2>1. e \in Entries
    BY <1>0, TTLsAreNat DEF Entries, Flights, Until, VerdictUntil
  <2>2. EntryOK(e)
    <3>1. CASE kind = "verdict"
      <4>1. /\ flight[f].began <= now /\ flight[f].began \in Nat
            /\ Reads(flight[f].val, flight[f].key, flight[f].began)
        BY <1>0 DEF Inv, LookupInv, LookupsFresh, Flights
      <4>2. /\ e.until = flight[f].began + TTL /\ e.val = flight[f].val
            /\ e.key = flight[f].key
        BY <3>1 DEF Until, VerdictUntil
      <4>3. flight[f].val < Current(flight[f].key) =>
               since[flight[f].key][flight[f].val + 1] \in Nat
        BY <1>0, <4>1 DEF Inv, TypeOK, Flights, Reads, Current
      <4> HIDE DEF e
      <4> QED
        BY <1>0, <3>1, <4>1, <4>2, <4>3, TTLsAreNat, SMTT(30) DEF EntryOK, VerdictOK, Reads
    <3>2. CASE kind = "preview"
      BY <1>0, <1>1, <3>2 DEF Inv, LookupInv, LoadsFresh, EntryOK, Stores
    <3> QED
      BY <1>0, <3>1, <3>2
  <2>3. Store(e)
    BY <1>1 DEF Complete
  <2> HIDE DEF e
  <2>4. cache' \in Seq(Entries) /\ EntriesFresh'
    BY <1>0, <2>1, <2>2, <2>3, StoreKeeps, EntriesFrame DEF Inv
  <2> QED
    BY <1>0, <2>4, LandsInv DEF Complete
<1>2. CASE ~Stores(f)
  <2>1. cache' = cache
    BY <1>2 DEF Complete
  <2>2. EntriesFresh'
    BY <1>0, <2>1, EntriesFrame DEF Inv
  <2> QED
    BY <1>0, <2>1, <2>2, LandsInv DEF Complete
<1> QED
  BY <1>1, <1>2

LEMMA FailInv == ASSUME Inv, NEW f \in Callers, Fail(f) PROVE Inv'
<1> DEFINE e == [key |-> flight[f].key, val |-> Nothing, until |-> now + FailureTTL]
<1>0. /\ flight[f] \in Flights /\ flight[f].st = "loading"
      /\ UNCHANGED <<kind, now, since, told>> /\ cache \in Seq(Entries) /\ now \in Nat
  BY DEF Fail, Lands, Inv, TypeOK
<1>1. CASE kind = "preview" /\ Stores(f) /\ FailureTTL > 0
  <2>1. e \in Entries /\ EntryOK(e)
    BY <1>0, <1>1, TTLsAreNat DEF Entries, Flights, EntryOK, Serves, Nothing
  <2>2. Store(e)
    BY <1>1 DEF Fail
  <2> HIDE DEF e
  <2>3. cache' \in Seq(Entries) /\ EntriesFresh'
    BY <1>0, <2>1, <2>2, StoreKeeps, EntriesFrame DEF Inv
  <2> QED
    BY <1>0, <2>3, LandsInv DEF Fail
<1>2. CASE ~(kind = "preview" /\ Stores(f) /\ FailureTTL > 0)
  <2>1. cache' = cache
    BY <1>2 DEF Fail
  <2>2. EntriesFresh'
    BY <1>0, <2>1, EntriesFrame DEF Inv
  <2> QED
    BY <1>0, <2>1, <2>2, LandsInv DEF Fail
<1> QED
  BY <1>1, <1>2

\* A caller that leaves a lookup, answered or cancelled.
LEMMA LeaveInv ==
    ASSUME Inv, NEW c \in Callers, caller[c].pc = "waiting",
           NEW s \in CallerStates, s.pc \notin {"idle", "waiting"},
           kind = "preview" => s.pc # "outdated",
           caller' = [caller EXCEPT ![c] = s],
           \/ UNCHANGED <<flight, shared>>
           \/ /\ caller[c].on \in Callers
              /\ \E how \in {"ok", "error", "cancelled", "none"},
                    v \in {flight[caller[c].on].val, Nothing} :
                    /\ flight' = Over(caller[c].on, {c}, how, v)
                    /\ kind = "preview" => how # "none"
              /\ \/ shared' = Unregister(caller[c].on)
                 \/ flight[caller[c].on].st # "loading" /\ UNCHANGED shared,
           UNCHANGED <<kind, now, since, told, cache, gen>>
    PROVE  Inv'
<1> USE DEF Inv, TypeOK
<1> DEFINE f == caller[c].on
<1>0. EntriesFresh'
  BY EntriesFrame
<1>1. caller' \in [Callers -> CallerStates] /\ \A d \in Callers : d # c => caller'[d] = caller[d]
  OBVIOUS
<1>2. ClearedStaysCleared'
  BY DEF LookupInv, ClearedStaysCleared
<1>3. ASSUME kind = "preview", NEW d \in Callers
      PROVE  /\ caller[d].pc = "idle" => flight[d].st = "none"
             /\ caller[d].pc = "waiting" =>
                  /\ caller[d].on \in Callers
                  /\ flight[caller[d].on].st # "none"
                  /\ flight[caller[d].on].key = caller[d].key
                  /\ caller[d].floor <= told[caller[d].key]
                  /\ Serves(flight[caller[d].on].val, caller[d].floor)
  BY <1>3 DEF LookupInv, CallersServed
<1>4. CASE UNCHANGED <<flight, shared>>
  <2>1. CallersServed'
    BY <1>1, <1>3, <1>4 DEF CallersServed, Serves
  <2>2. Behind' /\ Registered' /\ OneLookupPerKey' /\ LookupsFresh' /\ LoadsFresh'
    BY <1>4 DEF LookupInv, Behind, Registered, OneLookupPerKey, LookupsFresh, Reads, LoadsFresh,
                Serves, Current
  <2> QED
    BY <1>0, <1>1, <1>2, <1>4, <2>1, <2>2 DEF LookupInv
<1>5. CASE ~UNCHANGED <<flight, shared>>
  <2>1. /\ f \in Callers
        /\ shared' = Unregister(f) \/ (flight[f].st # "loading" /\ UNCHANGED shared)
    BY <1>5, Zenon
  <2>2. PICK how \in {"ok", "error", "cancelled", "none"}, v \in {flight[f].val, Nothing} :
            flight' = Over(f, {c}, how, v) /\ (kind = "preview" => how # "none")
    BY <1>5
  <2> HIDE DEF f
  <2>3. v \in Nat
    BY <2>1 DEF Flights, Nothing
  <2>4. /\ flight' \in [Callers -> Flights]
        /\ \A g \in Callers : g # f => flight'[g] = flight[g]
        /\ flight'[f].st \in {"none", how} /\ flight'[f].st # "loading"
        /\ flight'[f].gen <= flight[f].gen /\ flight'[f].began <= flight[f].began
        /\ ~(Waiters(f) \subseteq {c}) =>
              flight'[f].st = how /\ flight'[f].val = v /\ flight'[f].key = flight[f].key
    BY <2>1, <2>2, <2>3, OverIs
  <2>5. /\ shared' \in [Keys -> Callers \cup {Nobody}]
        /\ Behind' /\ Registered' /\ OneLookupPerKey' /\ LookupsFresh' /\ LoadsFresh'
    BY <2>1, <2>4, EndKeepsLookups
  <2>6. CallersServed'
    <3> SUFFICES ASSUME kind = "preview", NEW d \in Callers, d # c
                 PROVE  /\ caller[d].pc = "idle" => flight'[d].st = "none"
                        /\ caller[d].pc = "waiting" =>
                             /\ caller[d].on \in Callers
                             /\ flight'[caller[d].on].st # "none"
                             /\ flight'[caller[d].on].key = caller[d].key
                             /\ caller[d].floor <= told[caller[d].key]
                             /\ Serves(flight'[caller[d].on].val, caller[d].floor)
      BY <1>1 DEF CallersServed, Serves
    <3>1. CASE caller[d].pc = "idle"
      <4>1. d # f
        BY <1>3, <3>1 DEF f
      <4> QED
        BY <1>3, <2>4, <3>1, <4>1
    <3>2. CASE caller[d].pc = "waiting" /\ caller[d].on = f
      <4>1. d \in Waiters(f) /\ how # "none"
        BY <2>2, <3>2 DEF Waiters
      <4> QED
        <5>1. /\ flight'[f].st = how /\ flight'[f].val = v /\ flight'[f].key = flight[f].key
          BY <2>4, <4>1
        <5>2. /\ flight[f].key = caller[d].key /\ caller[d].floor <= told[caller[d].key]
              /\ Serves(flight[f].val, caller[d].floor) /\ f \in Callers
          BY <1>3, <2>1, <3>2
        <5>3. Serves(v, caller[d].floor)
          BY <2>2, <5>2 DEF Serves
        <5> QED
          BY <3>2, <4>1, <5>1, <5>2, <5>3
    <3>3. CASE caller[d].pc = "waiting" /\ caller[d].on # f
      <4>1. caller[d].on \in Callers
        BY <1>3, <3>3
      <4>2. flight'[caller[d].on] = flight[caller[d].on]
        BY <2>4, <3>3, <4>1
      <4> QED
        BY <1>3, <3>3, <4>2
    <3> QED
      BY <3>1, <3>2, <3>3
  <2> QED
    BY <1>0, <1>1, <1>2, <2>4, <2>5, <2>6 DEF LookupInv
<1> QED
  BY <1>4, <1>5

\* A caller joins the lookup its key is registered for, or starts the only one.
LEMMA EnterInv ==
    ASSUME Inv, NEW c \in Callers, NEW k \in Keys, NEW floor \in Nat,
           Enter(c, k, floor),
           kind = "preview" => caller[c].pc = "idle" /\ floor = told[k],
           cache' \in Seq(Entries), EntriesFresh',
           UNCHANGED <<kind, now, since, told, gen>>
    PROVE  Inv'
<1> USE DEF Inv, TypeOK
<1>1. ASSUME kind = "preview", NEW d \in Callers
      PROVE  /\ caller[d].pc = "idle" => flight[d].st = "none"
             /\ caller[d].pc = "waiting" =>
                  /\ caller[d].on \in Callers
                  /\ flight[caller[d].on].st # "none"
                  /\ flight[caller[d].on].key = caller[d].key
                  /\ caller[d].floor <= told[caller[d].key]
                  /\ Serves(flight[caller[d].on].val, caller[d].floor)
  BY <1>1 DEF LookupInv, CallersServed
<1>2. CASE shared[k] # Nobody
  <2> DEFINE s == [pc |-> "waiting", key |-> k, on |-> shared[k], floor |-> floor]
  <2>1. caller' = [caller EXCEPT ![c] = s] /\ UNCHANGED <<flight, shared>>
    BY <1>2 DEF Enter
  <2>2. /\ shared[k] \in Callers /\ s \in CallerStates
        /\ s.pc = "waiting" /\ s.key = k /\ s.on = shared[k] /\ s.floor = floor
    BY <1>2 DEF CallerStates
  <2> HIDE DEF s
  <2>3. caller' \in [Callers -> CallerStates]
        /\ caller'[c] = s /\ \A d \in Callers : d # c => caller'[d] = caller[d]
    BY <2>1, <2>2
  <2>4. ClearedStaysCleared'
    BY <2>2, <2>3 DEF LookupInv, ClearedStaysCleared
  <2>5. CallersServed'
    <3> SUFFICES ASSUME kind = "preview"
                 PROVE  /\ flight[shared[k]].st # "none"
                        /\ flight[shared[k]].key = k
                        /\ floor <= told[k]
                        /\ Serves(flight[shared[k]].val, floor)
      BY <1>1, <2>1, <2>2, <2>3 DEF CallersServed, Serves
    <3>1. /\ flight[shared[k]].st = "loading" /\ flight[shared[k]].key = k
          /\ flight[shared[k]].gen = gen
      BY <1>2 DEF LookupInv, LoadsFresh
    <3>2. Serves(flight[shared[k]].val, told[k])
      BY <2>2, <3>1 DEF LookupInv, LoadsFresh
    <3> QED
      BY <3>1, <3>2
  <2>6. Behind' /\ Registered' /\ OneLookupPerKey' /\ LookupsFresh' /\ LoadsFresh'
    BY <2>1 DEF LookupInv, Behind, Registered, OneLookupPerKey, LookupsFresh, Reads, LoadsFresh,
                Serves, Current
  <2> QED
    BY <2>1, <2>3, <2>4, <2>5, <2>6 DEF LookupInv
<1>3. CASE shared[k] = Nobody
  <2> DEFINE s == [pc |-> "waiting", key |-> k, on |-> c, floor |-> floor]
             l == [st |-> "loading", key |-> k, began |-> now, val |-> Nothing,
                   gen |-> gen, joinable |-> Room]
  <2>1. /\ caller' = [caller EXCEPT ![c] = s] /\ flight' = [flight EXCEPT ![c] = l]
        /\ shared' = IF Room THEN [shared EXCEPT ![k] = c] ELSE shared
    BY <1>3 DEF Enter
  <2>2. /\ s \in CallerStates
        /\ s.pc = "waiting" /\ s.key = k /\ s.on = c /\ s.floor = floor
    BY DEF CallerStates
  <2>3. /\ l \in Flights /\ l.st = "loading" /\ l.key = k /\ l.began = now
        /\ l.val = Nothing /\ l.gen = gen /\ l.joinable = Room
    <3>1. Room \in BOOLEAN
      BY DEF Room
    <3> QED
      BY <3>1 DEF Flights, Nothing
  <2> HIDE DEF s, l
  <2>4. /\ caller' \in [Callers -> CallerStates]
        /\ caller'[c] = s /\ \A d \in Callers : d # c => caller'[d] = caller[d]
        /\ flight' \in [Callers -> Flights]
        /\ flight'[c] = l /\ \A d \in Callers : d # c => flight'[d] = flight[d]
        /\ shared' \in [Keys -> Callers \cup {Nobody}]
        /\ \A j \in Keys : j # k => shared'[j] = shared[j]
        /\ shared'[k] = IF Room THEN c ELSE Nobody
    BY <1>3, <2>1, <2>2, <2>3
  <2>5. ClearedStaysCleared'
    BY <2>2, <2>4 DEF LookupInv, ClearedStaysCleared
  <2>6. Behind'
    BY <2>3, <2>4 DEF LookupInv, Behind, Current
  <2>7. \A g \in Callers : flight[g].st = "loading" /\ flight[g].joinable /\ flight[g].gen = gen
            => flight[g].key # k
    BY <1>3, CacheAssumption DEF LookupInv, Registered
  <2>8. Registered'
    <3> SUFFICES ASSUME NEW g \in Callers, flight'[g].st = "loading", flight'[g].joinable,
                        flight'[g].gen = gen
                 PROVE  shared'[flight'[g].key] = g
      BY DEF Registered
    <3>1. CASE g = c
      BY <2>3, <2>4, <3>1
    <3>2. CASE g # c
      <4>1. flight'[g] = flight[g] /\ flight[g] \in Flights
        BY <2>4, <3>2
      <4>2. flight[g].key # k /\ flight[g].key \in Keys /\ shared[flight[g].key] = g
        BY <2>7, <4>1 DEF LookupInv, Registered, Flights
      <4> QED
        BY <2>4, <4>1, <4>2
    <3> QED
      BY <3>1, <3>2
  <2>9. OneLookupPerKey'
    <3>1. OneLookupPerKey
      BY DEF LookupInv
    <3> HIDE DEF Inv, TypeOK
    <3> QED
      BY <2>3, <2>4, <2>7, <3>1 DEF OneLookupPerKey
  <2>10. LookupsFresh'
    <3>1. LookupsFresh /\ now \in Nat
      BY DEF LookupInv
    <3>2. \A g \in Callers : flight'[g] = l \/ flight'[g] = flight[g]
      BY <2>4
    <3> HIDE DEF Inv, TypeOK
    <3> QED
      BY <2>3, <3>1, <3>2 DEF LookupsFresh, Reads, Current
  <2>11. LoadsFresh'
    <3> SUFFICES ASSUME kind = "preview" PROVE LoadsFresh'
      BY DEF LoadsFresh
    <3>1. \A j \in Keys : shared[j] # c
      <4>1. flight[c].st = "none" /\ c # Nobody
        BY <1>1, CacheAssumption
      <4>2. \A j \in Keys : shared[j] # Nobody => flight[shared[j]].st = "loading"
        BY DEF LookupInv, LoadsFresh
      <4> QED
        BY <4>1, <4>2
    <3>2. ASSUME NEW g \in Callers, flight'[g].st = "loading", flight'[g].gen = gen
          PROVE  Serves(flight'[g].val, told[flight'[g].key])
      BY <2>3, <2>4, <3>2 DEF LookupInv, LoadsFresh, Serves
    <3>3. ASSUME NEW j \in Keys, shared'[j] # Nobody
          PROVE  /\ flight'[shared'[j]].st = "loading"
                 /\ flight'[shared'[j]].key = j
                 /\ flight'[shared'[j]].gen = gen
      <4>1. CASE j = k
        BY <2>3, <2>4, <3>3, <4>1
      <4>2. CASE j # k
        <5>1. /\ shared'[j] = shared[j] /\ shared[j] \in Callers /\ shared[j] # c
          BY <2>4, <3>1, <3>3, <4>2
        <5>2. flight'[shared'[j]] = flight[shared[j]]
          BY <2>4, <5>1
        <5> QED
          BY <3>3, <5>1, <5>2 DEF LookupInv, LoadsFresh
      <4> QED
        BY <4>1, <4>2
    <3> QED
      BY <3>2, <3>3 DEF LoadsFresh, Serves
  <2>12. CallersServed'
    <3> SUFFICES ASSUME kind = "preview" PROVE CallersServed'
      BY DEF CallersServed
    <3>1. flight[c].st = "none" /\ floor = told[k] /\ floor <= told[k]
      BY <1>1
    <3>2. \A d \in Callers : caller[d].pc = "waiting" => caller[d].on # c
      BY <1>1, <3>1
    <3>3. ASSUME NEW d \in Callers
          PROVE  /\ caller'[d].pc = "idle" => flight'[d].st = "none"
                 /\ caller'[d].pc = "waiting" =>
                      /\ caller'[d].on \in Callers
                      /\ flight'[caller'[d].on].st # "none"
                      /\ flight'[caller'[d].on].key = caller'[d].key
                      /\ caller'[d].floor <= told[caller'[d].key]
                      /\ Serves(flight'[caller'[d].on].val, caller'[d].floor)
      <4>1. CASE d = c
        BY <2>2, <2>3, <2>4, <3>1, <4>1 DEF Serves
      <4>2. CASE d # c
        BY <1>1, <2>4, <3>2, <4>2
      <4> QED
        BY <4>1, <4>2
    <3> QED
      BY <3>3 DEF CallersServed, Serves
  <2> QED
    BY <2>4, <2>5, <2>6, <2>8, <2>9, <2>10, <2>11, <2>12 DEF LookupInv
<1> QED
  BY <1>2, <1>3

\* A waiter is answered with what its lookup brought, or looks up again.
LEMMA WakeInv == ASSUME Inv, NEW c \in Callers, Wake(c) PROVE Inv'
<1> DEFINE f == caller[c].on
<1>0. /\ caller[c].pc = "waiting" /\ UNCHANGED <<kind, now, since, told, cache, gen>>
      /\ caller[c] \in CallerStates
  BY DEF Wake, Inv, TypeOK
<1>1. CASE flight[f].st \in {"ok", "error"} /\ flight' = Left(c) /\ UNCHANGED shared
           /\ caller' = [caller EXCEPT ![c] = Answer(flight[f].val, @.floor)]
  <2> DEFINE s == Answer(flight[f].val, caller[c].floor)
  <2>1. s \in CallerStates /\ s.pc \notin {"idle", "waiting"}
    BY AnswerType
  <2>2. kind = "preview" => s.pc # "outdated"
    <3> SUFFICES ASSUME kind = "preview" PROVE s.pc # "outdated"
      OBVIOUS
    <3>1. f \in Callers /\ Serves(flight[f].val, caller[c].floor)
      BY <1>0 DEF Inv, LookupInv, CallersServed
    <3>2. flight[f].val \in Nat /\ caller[c].floor \in Nat
      BY <1>0, <3>1 DEF Inv, TypeOK, Flights, CallerStates
    <3> QED
      BY <3>1, <3>2, AnswerType
  <2>3. caller' = [caller EXCEPT ![c] = s]
    BY <1>1 DEF Inv, TypeOK
  <2>4. flight' = Over(f, {c}, flight[f].st, flight[f].val)
    <3>1. flight' = Left(c)
      BY <1>1, Zenon
    <3> QED
      BY ONLY <3>1 DEF Left
  <2> HIDE DEF s
  <2>5. CASE f \in Callers
    <3>1. \E how \in {"ok", "error", "cancelled", "none"}, v \in {flight[f].val, Nothing} :
              flight' = Over(f, {c}, how, v) /\ (kind = "preview" => how # "none")
      <4>1. flight[f].st \in {"ok", "error", "cancelled", "none"} /\ flight[f].st # "none"
        BY <1>1
      <4> QED
        BY ONLY <2>4, <4>1
    <3>2. flight[f].st # "loading" /\ UNCHANGED shared
      BY <1>1
    <3> QED
      BY ONLY Inv, c \in Callers, <1>0, <2>1, <2>2, <2>3, <2>5, <3>1, <3>2, LeaveInv
  <2>6. CASE f \notin Callers
    <3>1. flight' = flight
      BY <2>4, <2>6 DEF Over, Inv, TypeOK
    <3> QED
      BY <1>0, <1>1, <2>1, <2>2, <2>3, <3>1, LeaveInv
  <2> QED
    BY <2>5, <2>6
<1>2. CASE kind = "verdict" /\ Enter(c, caller[c].key, caller[c].floor)
  <2>1. caller[c].key \in Keys /\ caller[c].floor \in Nat
    BY <1>0 DEF CallerStates
  <2>2. EntriesFresh' /\ cache' \in Seq(Entries)
    BY <1>0, EntriesFrame DEF Inv, TypeOK
  <2> QED
    BY <1>0, <1>2, <2>1, <2>2, EnterInv
<1> QED
  BY <1>1, <1>2 DEF Wake

\* A cancelled caller takes the lookup with it, or only its own interest in it.
LEMMA CancelInv == ASSUME Inv, NEW c \in Callers, Cancel(c) PROVE Inv'
<1> DEFINE f == caller[c].on
           s == [Resting EXCEPT !.pc = "gone"]
<1>0. /\ caller[c].pc = "waiting" /\ UNCHANGED <<kind, now, since, told, cache, gen>>
      /\ caller' = [caller EXCEPT ![c] = s]
  BY DEF Cancel
<1>1. s \in CallerStates /\ s.pc = "gone"
  BY KeyExists DEF Resting, CallerStates
<1> HIDE DEF s
<1>2. kind = "preview" => f \in Callers /\ flight[f].st # "none"
  BY <1>0 DEF Inv, LookupInv, CallersServed
<1>3. CASE EndsLookup(c)
  <2>1. f \in Callers
    BY <1>2, <1>3 DEF EndsLookup, Inv, TypeOK
  <2>2. flight' = Over(f, {c}, "cancelled", Nothing) /\ shared' = Unregister(f)
    BY <1>3 DEF Cancel, LookupEnds
  <2> QED
    BY <1>0, <1>1, <2>1, <2>2, LeaveInv
<1>4. CASE ~EndsLookup(c) /\ flight[f].st = "loading"
  <2>1. UNCHANGED <<flight, shared>>
    BY <1>4 DEF Cancel
  <2> QED
    BY <1>0, <1>1, <2>1, LeaveInv
<1>5. CASE ~EndsLookup(c) /\ flight[f].st # "loading"
  <2>1. flight' = Over(f, {c}, flight[f].st, flight[f].val) /\ UNCHANGED shared
    BY <1>5 DEF Cancel, Left
  <2>2. CASE f \in Callers
    <3>1. flight[f].st \in {"none", "ok", "error", "cancelled"}
      BY <1>5, <2>2 DEF Inv, TypeOK, Flights
    <3> QED
      BY <1>0, <1>1, <1>2, <1>5, <2>1, <2>2, <3>1, LeaveInv
  <2>3. CASE f \notin Callers
    <3>1. flight' = flight
      BY <2>1, <2>3 DEF Over, Inv, TypeOK
    <3> QED
      BY <1>0, <1>1, <2>1, <3>1, LeaveInv
  <2> QED
    BY <2>2, <2>3
<1> QED
  BY <1>3, <1>4, <1>5

\* A new caller is answered from the cache or waits.
LEMMA ArriveInv == ASSUME Inv, NEW c \in Callers, NEW k \in Keys, Arrive(c, k) PROVE Inv'
<1>0. /\ caller[c].pc = "idle" /\ UNCHANGED <<kind, now, since, told, gen>>
      /\ told[k] \in Nat /\ cache \in Seq(Entries)
  BY DEF Arrive, Inv, TypeOK
<1>1. CASE Hit(c, k)
  <2>1. PICK i \in DOMAIN cache :
          /\ Live(cache[i], k) /\ cache' = Append(Without(k), cache[i])
          /\ caller' = [caller EXCEPT ![c] = Answer(cache[i].val, told[k])]
    BY <1>1 DEF Hit
  <2>2. cache[i] \in Entries /\ EntryOK(cache[i]) /\ cache[i].key = k /\ cache[i].val \in Nat
    <3>1. cache[i] \in Entries
      BY <1>0, <2>1
    <3>2. EntryOK(cache[i]) /\ cache[i].key = k
      BY <2>1 DEF Inv, EntriesFresh, Live
    <3> QED
      BY <3>1, <3>2 DEF Entries
  <2>3. /\ cache' \in Seq(Entries)
        /\ \A n \in DOMAIN cache' :
              cache'[n] = cache[i] \/ \E m \in DOMAIN cache : cache'[n] = cache[m]
    BY <1>0, <2>1, <2>2, AppendKeeps
  <2>4. EntriesFresh'
    BY <1>0, <2>3, EntriesFrame DEF Inv
  <2> DEFINE s == Answer(cache[i].val, told[k])
  <2>5. s \in CallerStates /\ s.pc \notin {"idle", "waiting"}
    BY AnswerType
  <2>6. kind = "preview" => s.pc # "outdated"
    BY <1>0, <2>2, AnswerType DEF EntryOK
  <2>7. caller' = [caller EXCEPT ![c] = s] /\ UNCHANGED <<shared, flight>>
    BY <1>1, <2>1 DEF Hit
  <2> HIDE DEF s
  <2>8. /\ caller' \in [Callers -> CallerStates]
        /\ caller'[c] = s /\ \A d \in Callers : d # c => caller'[d] = caller[d]
    BY <2>5, <2>7 DEF Inv, TypeOK
  <2>9. CallersServed' /\ ClearedStaysCleared'
    BY <1>0, <2>5, <2>6, <2>7, <2>8
    DEF Inv, LookupInv, CallersServed, ClearedStaysCleared, Serves
  <2>10. Behind' /\ Registered' /\ OneLookupPerKey' /\ LookupsFresh' /\ LoadsFresh'
    BY <1>0, <2>7 DEF Inv, LookupInv, Behind, Registered, OneLookupPerKey, LookupsFresh, Reads,
                      LoadsFresh, Serves, Current
  <2>11. TypeOK'
    BY <1>0, <2>3, <2>7, <2>8 DEF Inv, TypeOK
  <2> QED
    BY <2>4, <2>9, <2>10, <2>11 DEF Inv, LookupInv
<1>2. CASE Enter(c, k, told[k]) /\ cache' \in {cache, Without(k)}
  <2>1. /\ cache' \in Seq(Entries)
        /\ \A n \in DOMAIN cache' : \E m \in DOMAIN cache : cache'[n] = cache[m]
    BY <1>0, <1>2, WithoutKeeps
  <2>2. EntriesFresh'
    BY <1>0, <2>1, EntriesFrame DEF Inv
  <2> QED
    BY <1>0, <1>2, <2>1, <2>2, EnterInv
<1> QED
  BY <1>1, <1>2 DEF Arrive

LEMMA NextInv == ASSUME Inv, [Next]_vars PROVE Inv'
<1>1. CASE UNCHANGED vars
  BY <1>1, StutterInv
<1>2. CASE Tick
  BY <1>2, TickInv
<1>3. ASSUME NEW c \in Callers, (\E k \in Keys : Arrive(c, k)) \/ Wake(c) \/ Cancel(c) PROVE Inv'
  BY <1>3, ArriveInv, WakeInv, CancelInv
<1>4. ASSUME NEW f \in Callers, Read(f) \/ Complete(f) \/ Fail(f) PROVE Inv'
  BY <1>4, ReadInv, CompleteInv, FailInv
<1>5. ASSUME NEW k \in Keys, Change(k) \/ Invalidate(k) PROVE Inv'
  BY <1>5, ChangeInv, InvalidateInv
<1> QED
  BY <1>1, <1>2, <1>3, <1>4, <1>5 DEF Next

-----------------------------------------------------------------------------
(* The results. *)

\* The invariant holds in every reachable state of SingleFlight, the verdict
\* caches over it and AsyncTTLCache.
THEOREM LookupInvariant == Spec => []Inv
BY InitInv, NextInv, PTL DEF Spec

\* However many callers race, are cancelled or are detached by a clear, a key
\* has one shared lookup of a generation under way.
THEOREM LookupsAreShared == Spec => []OneLookupPerKey
<1>1. Inv => OneLookupPerKey
  BY DEF Inv, LookupInv
<1> QED
  BY <1>1, LookupInvariant, PTL

\* A cached token or actor verdict is never served a TTL or more after the row it
\* was read from changed, for any TTL and however long the lookup took.
THEOREM VerdictsExpire == Spec => []StaleVerdictsExpire
<1>1. ASSUME Inv PROVE StaleVerdictsExpire
  <2> SUFFICES ASSUME kind = "verdict", NEW i \in DOMAIN cache,
                      now < cache[i].until, cache[i].val < Current(cache[i].key)
               PROVE  now < since[cache[i].key][cache[i].val + 1] + TTL
    BY DEF StaleVerdictsExpire
  <2>1. cache[i] \in Entries /\ VerdictOK(cache[i])
    BY <1>1 DEF Inv, TypeOK, EntriesFresh, EntryOK
  <2> DEFINE t == since[cache[i].key][cache[i].val + 1]
             u == cache[i].until
  <2>2. u \in Nat /\ now \in Nat /\ u <= t + TTL /\ now < u
    BY <1>1, <2>1 DEF Inv, TypeOK, Entries, VerdictOK
  <2>3. t \in Nat
    <3>1. cache[i].key \in Keys /\ cache[i].val \in Nat
      BY <2>1 DEF Entries
    <3>2. since[cache[i].key] \in Seq(Nat)
      BY <1>1, <3>1 DEF Inv, TypeOK
    <3>3. cache[i].val + 1 \in 1 .. Len(since[cache[i].key])
      BY <3>1, <3>2 DEF Current
    <3> QED
      BY <3>2, <3>3
  <2> HIDE DEF t, u
  <2>4. now < t + TTL
    BY <2>2, <2>3, TTLsAreNat
  <2> QED
    BY <2>4 DEF t
<1> QED
  BY <1>1, LookupInvariant, PTL

\* No caller that arrives after a clear of the preview cache is given a document
\* read before it, whichever loads were under way.
THEOREM ClearsAreFinal == Spec => []ClearedStaysCleared
<1>1. Inv => ClearedStaysCleared
  BY DEF Inv, LookupInv
<1> QED
  BY <1>1, LookupInvariant, PTL

=============================================================================
