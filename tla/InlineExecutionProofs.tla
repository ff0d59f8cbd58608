------------------------ MODULE InlineExecutionProofs ------------------------
(***************************************************************************)
(* Proofs about InlineExecution and the store it runs on.                  *)
(***************************************************************************)
EXTENDS InlineExecution, FiniteSetTheorems, TLAPS

-----------------------------------------------------------------------------
(* The store: what it holds, its budgets, and what a write may change *)

ScopeNames == {"namespace", "owner_share", "total"}

\* Two keys count against the same scope of a kind.
SameScope(k, key, scope) ==
    /\ scope # "total"       => k[1] = key[1]
    /\ scope = "owner_share" => k[2] = key[2]

IsStore(st) ==
    /\ IsFiniteSet(DOMAIN st)
    /\ \A k \in DOMAIN st :
         k[1] \in DOMAIN Budget /\ st[k].size \in Nat /\ st[k].exp \in Nat

\* Every entry fits where it is: no scope holds more than its budget.
WithinBudget(st) ==
    \A k \in DOMAIN st, scope \in ScopeNames : Fits(st, k, st[k].size, scope)

\* From st to st2 only the keys of S are written, and only expired entries go.
Keeps(st, st2, S, t) ==
    /\ \A k \in DOMAIN st2 : k \notin S => k \in DOMAIN st /\ st2[k] = st[k]
    /\ \A k \in DOMAIN st : k \notin S /\ st[k].exp > t => k \in DOMAIN st2

ByteSet(st, K) == UNION {{k} \X (1 .. st[k].size) : k \in K}

LEMMA FiniteRange ==
    ASSUME NEW n \in Nat PROVE IsFiniteSet(1 .. n) /\ Cardinality(1 .. n) = n
<1>1. IsFiniteSet(1 .. n) /\ Cardinality(1 .. n) = IF 1 > n THEN 0 ELSE n - 1 + 1
  <2>1. 1 \in Int /\ n \in Int
    OBVIOUS
  <2> QED
    BY <2>1, FS_Interval
<1> QED
  BY <1>1

LEMMA BytesFinite ==
    ASSUME NEW st, NEW K, IsFiniteSet(K), \A k \in K : st[k].size \in Nat
    PROVE  IsFiniteSet(ByteSet(st, K)) /\ Bytes(st, K) \in Nat
<1> DEFINE f == [k \in K |-> {k} \X (1 .. st[k].size)]
           T == {{k} \X (1 .. st[k].size) : k \in K}
<1>1. f \in Surjection(K, T)
  BY DEF Surjection
<1>2. IsFiniteSet(T)
  <2> HIDE DEF f, T
  <2> QED
    BY <1>1, FS_Surjection
<1>3. \A k \in K : IsFiniteSet({k} \X (1 .. st[k].size))
  <2> TAKE k \in K
  <2>1. IsFiniteSet({k})
    BY FS_Singleton
  <2>2. IsFiniteSet(1 .. st[k].size)
    BY FiniteRange
  <2> QED
    BY <2>1, <2>2, FS_Product
<1>4. \A t \in T : IsFiniteSet(t)
  BY <1>3
<1>5. IsFiniteSet(UNION T)
  <2> HIDE DEF T
  <2> QED
    BY <1>2, <1>4, FS_UNION
<1> QED
  BY <1>5, FS_CardinalityType DEF ByteSet, Bytes

LEMMA BytesMonotonic ==
    ASSUME NEW st, NEW K, IsFiniteSet(K), \A k \in K : st[k].size \in Nat, NEW J \in SUBSET K
    PROVE  Bytes(st, J) <= Bytes(st, K)
<1>1. ByteSet(st, J) \in SUBSET ByteSet(st, K)
  BY DEF ByteSet
<1>2. IsFiniteSet(ByteSet(st, K))
  BY BytesFinite
<1>3. Cardinality(ByteSet(st, J)) <= Cardinality(ByteSet(st, K))
  BY <1>1, <1>2, FS_Subset
<1> QED
  BY <1>3 DEF ByteSet, Bytes

LEMMA BytesAdd ==
    ASSUME NEW st, NEW K, IsFiniteSet(K), NEW x, x \notin K, \A k \in K \cup {x} : st[k].size \in Nat
    PROVE  Bytes(st, K \cup {x}) = Bytes(st, K) + st[x].size
<1> DEFINE X == {x} \X (1 .. st[x].size)
<1>1. ByteSet(st, K \cup {x}) = ByteSet(st, K) \cup X
  BY DEF ByteSet
<1>2. ByteSet(st, K) \cap X = {}
  BY DEF ByteSet
<1>3. IsFiniteSet(X) /\ Cardinality(X) = st[x].size
  <2>1. st[x].size \in Nat
    OBVIOUS
  <2>2. IsFiniteSet({x}) /\ Cardinality({x}) = 1
    BY FS_Singleton
  <2>3. IsFiniteSet(1 .. st[x].size) /\ Cardinality(1 .. st[x].size) = st[x].size
    BY <2>1, FiniteRange
  <2>4. IsFiniteSet(X) /\ Cardinality(X) = 1 * st[x].size
    BY <2>2, <2>3, FS_Product
  <2> QED
    BY <2>1, <2>4
<1>4. IsFiniteSet(ByteSet(st, K)) /\ Cardinality(ByteSet(st, K)) \in Nat
  BY BytesFinite DEF ByteSet, Bytes
<1>5. Cardinality(ByteSet(st, K) \cup X) = Cardinality(ByteSet(st, K)) + Cardinality(X)
  <2> HIDE DEF X
  <2>1. Cardinality(ByteSet(st, K) \cup X)
          = Cardinality(ByteSet(st, K)) + Cardinality(X) - Cardinality(ByteSet(st, K) \cap X)
    BY <1>3, <1>4, FS_Union
  <2>2. Cardinality(ByteSet(st, K) \cap X) = 0 /\ Cardinality(X) \in Nat
    BY <1>2, <1>3, FS_EmptySet, FS_CardinalityType
  <2> QED
    BY <1>4, <2>1, <2>2
<1> QED
  BY <1>1, <1>3, <1>5 DEF ByteSet, Bytes

LEMMA BytesSame ==
    ASSUME NEW st, NEW st2, NEW K, \A k \in K : st2[k] = st[k]
    PROVE  Bytes(st2, K) = Bytes(st, K)
<1>1. {{k} \X (1 .. st2[k].size) : k \in K} = {{k} \X (1 .. st[k].size) : k \in K}
  OBVIOUS
<1> QED
  BY <1>1 DEF Bytes

-----------------------------------------------------------------------------
(* Budgets *)

LEMMA LimitsAreNat ==
    ASSUME NEW ns \in DOMAIN Budget, NEW scope \in ScopeNames
    PROVE  ByteLimit(ns, scope) \in Nat /\ EntryLimit(ns, scope) \in Nat
  BY BudgetAssumption DEF ByteLimit, EntryLimit, ScopeNames

\* Keys of one scope have the same limits and are charged together.
LEMMA ScopeIsShared ==
    ASSUME NEW st, NEW k, NEW key, NEW scope \in ScopeNames, SameScope(k, key, scope)
    PROVE  /\ Charged(st, k, scope) = Charged(st, key, scope)
           /\ ByteLimit(k[1], scope) = ByteLimit(key[1], scope)
           /\ scope # "total" => EntryLimit(k[1], scope) = EntryLimit(key[1], scope)
  BY DEF Charged, SameScope, ByteLimit, ScopeNames

\* _refusing_scope is None exactly when every scope has room.
LEMMA NoScopeRefuses ==
    ASSUME NEW st, NEW key, NEW size
    PROVE  RefusingScope(st, key, size) = "none" <=> \A scope \in ScopeNames : Fits(st, key, size, scope)
<1> DEFINE full == {i \in DOMAIN Scopes : ~Fits(st, key, size, Scopes[i])}
<1>1. DOMAIN Scopes = {1, 2, 3} /\ Scopes[1] = "namespace" /\ Scopes[2] = "owner_share" /\ Scopes[3] = "total"
  BY DEF Scopes
<1>2. full = {} <=> \A scope \in ScopeNames : Fits(st, key, size, scope)
  BY <1>1 DEF ScopeNames
<1>3. full # {} => (CHOOSE i \in full : \A j \in full : i <= j) \in {1, 2, 3}
  <2> SUFFICES ASSUME full # {} PROVE \E i \in full : \A j \in full : i <= j
    BY <1>1
  <2>1. CASE 1 \in full
    BY <1>1, <2>1
  <2>2. CASE 1 \notin full /\ 2 \in full
    BY <1>1, <2>2
  <2>3. CASE 1 \notin full /\ 2 \notin full
    BY <1>1, <2>3
  <2> QED
    BY <2>1, <2>2, <2>3
<1>4. full # {} => Scopes[CHOOSE i \in full : \A j \in full : i <= j] # "none"
  <2> HIDE DEF full
  <2> QED
    BY <1>1, <1>3
<1> HIDE DEF full
<1>5. RefusingScope(st, key, size)
        = IF full = {} THEN "none" ELSE Scopes[CHOOSE i \in full : \A j \in full : i <= j]
  BY DEF RefusingScope, full
<1> QED
  BY <1>2, <1>4, <1>5

\* What is charged to a scope, once entries are dropped, was charged before.
LEMMA DropKeepsBudget ==
    ASSUME NEW st, IsStore(st), WithinBudget(st), NEW K
    PROVE  IsStore(Drop(st, K)) /\ WithinBudget(Drop(st, K))
<1> DEFINE st2 == Drop(st, K)
<1>1. DOMAIN st2 \subseteq DOMAIN st /\ \A k \in DOMAIN st2 : st2[k] = st[k]
  BY DEF Drop, Restrict
<1> HIDE DEF st2
<1>2. IsStore(st2)
  <2>1. IsFiniteSet(DOMAIN st2)
    BY <1>1, FS_Subset DEF IsStore
  <2> QED
    BY <1>1, <2>1 DEF IsStore
<1>3. ASSUME NEW k \in DOMAIN st2, NEW scope \in ScopeNames
      PROVE  Fits(st2, k, st2[k].size, scope)
  <2> DEFINE A == Charged(st, k, scope) \ {k}
             B == Charged(st2, k, scope) \ {k}
  <2>1. B \subseteq A /\ A \subseteq DOMAIN st /\ \A x \in B : st2[x] = st[x]
    BY <1>1 DEF Charged
  <2>2. k \in DOMAIN st /\ st2[k] = st[k] /\ k[1] \in DOMAIN Budget /\ st[k].size \in Nat
    BY <1>1 DEF IsStore
  <2>3. /\ scope # "total" => Cardinality(A) + 1 <= EntryLimit(k[1], scope)
        /\ Bytes(st, A) + st[k].size <= ByteLimit(k[1], scope)
    BY <2>2 DEF WithinBudget, Fits
  <2> HIDE DEF A, B
  <2>4. IsFiniteSet(A) /\ IsFiniteSet(B) /\ Cardinality(B) <= Cardinality(A)
        /\ Cardinality(A) \in Nat /\ Cardinality(B) \in Nat
    <3>1. IsFiniteSet(A)
      BY <2>1, FS_Subset DEF IsStore
    <3> QED
      BY <2>1, <3>1, FS_Subset, FS_CardinalityType
  <2>5. Bytes(st2, B) = Bytes(st, B)
    BY <2>1, BytesSame
  <2>6. \A x \in A : st[x].size \in Nat
    BY <2>1 DEF IsStore
  <2>7. Bytes(st, B) <= Bytes(st, A) /\ Bytes(st, A) \in Nat /\ Bytes(st, B) \in Nat
    BY <2>1, <2>4, <2>6, BytesMonotonic, BytesFinite
  <2>8. ByteLimit(k[1], scope) \in Nat /\ EntryLimit(k[1], scope) \in Nat
    BY <2>2, LimitsAreNat
  <2>9. /\ scope # "total" => Cardinality(B) + 1 <= EntryLimit(k[1], scope)
        /\ Bytes(st2, B) + st2[k].size <= ByteLimit(k[1], scope)
    BY <2>2, <2>3, <2>4, <2>5, <2>7, <2>8
  <2> QED
    BY <2>9 DEF Fits, B
<1> QED
  BY <1>2, <1>3 DEF WithinBudget, st2

\* A write that every scope has room for leaves every scope within its budget.
LEMMA PutKeepsBudget ==
    ASSUME NEW st, IsStore(st), WithinBudget(st), NEW key, key[1] \in DOMAIN Budget,
           NEW val, NEW size \in Nat, NEW exp \in Nat,
           \A scope \in ScopeNames : Fits(st, key, size, scope)
    PROVE  LET st2 == Put(st, key, [val |-> val, size |-> size, exp |-> exp])
           IN  IsStore(st2) /\ WithinBudget(st2)
<1> DEFINE st2 == Put(st, key, [val |-> val, size |-> size, exp |-> exp])
<1>1. /\ DOMAIN st2 = DOMAIN st \cup {key}
      /\ st2[key].size = size /\ st2[key].exp = exp
      /\ \A k \in DOMAIN st : k # key => st2[k] = st[k]
  BY DEF Put
<1> HIDE DEF st2
<1>2. IsStore(st2)
  <2>1. IsFiniteSet(DOMAIN st2)
    BY <1>1, FS_AddElement DEF IsStore
  <2>2. ASSUME NEW k \in DOMAIN st2
        PROVE  k[1] \in DOMAIN Budget /\ st2[k].size \in Nat /\ st2[k].exp \in Nat
    <3>1. CASE k = key
      BY <1>1, <3>1
    <3>2. CASE k # key
      BY <1>1, <3>2 DEF IsStore
    <3> QED
      BY <3>1, <3>2
  <2> QED
    BY <2>1, <2>2 DEF IsStore
<1>3. ASSUME NEW k \in DOMAIN st2, NEW scope \in ScopeNames
      PROVE  Fits(st2, k, st2[k].size, scope)
  <2> DEFINE A  == Charged(st2, key, scope) \ {key}
             B  == Charged(st2, k, scope) \ {k}
  <2>1. /\ A = Charged(st, key, scope) \ {key}
        /\ A \subseteq DOMAIN st /\ \A x \in A : x # key /\ st2[x] = st[x]
    BY <1>1 DEF Charged
  <2>2. Bytes(st2, A) = Bytes(st, A)
    BY <2>1, BytesSame
  <2>3. /\ scope # "total" => Cardinality(A) + 1 <= EntryLimit(key[1], scope)
        /\ Bytes(st2, A) + size <= ByteLimit(key[1], scope)
    BY <2>1, <2>2 DEF Fits
  <2>4. CASE k = key
    BY <1>1, <2>3, <2>4 DEF Fits
  <2>5. CASE k # key /\ ~SameScope(key, k, scope)
    <3>1. /\ B = Charged(st, k, scope) \ {k}
          /\ B \subseteq DOMAIN st /\ \A x \in B : st2[x] = st[x]
      BY <1>1, <2>5 DEF Charged, SameScope
    <3>2. Bytes(st2, B) = Bytes(st, B)
      BY <3>1, BytesSame
    <3>3. k \in DOMAIN st /\ st2[k] = st[k]
      BY <1>1, <2>5
    <3>4. Fits(st, k, st[k].size, scope)
      BY <3>3 DEF WithinBudget
    <3> QED
      BY <3>1, <3>2, <3>3, <3>4 DEF Fits
  <2>6. CASE k # key /\ SameScope(key, k, scope)
    <3>1. /\ Charged(st2, key, scope) = Charged(st2, k, scope)
          /\ ByteLimit(key[1], scope) = ByteLimit(k[1], scope)
          /\ scope # "total" => EntryLimit(key[1], scope) = EntryLimit(k[1], scope)
      BY <2>6, ScopeIsShared
    <3>2. key \in Charged(st2, key, scope) /\ k \in Charged(st2, k, scope)
      BY <1>1 DEF Charged
    <3>3. A \cup {key} = B \cup {k} /\ key \notin A /\ k \notin B
      BY <3>1, <3>2
    <3>4. A \subseteq DOMAIN st2 /\ B \subseteq DOMAIN st2
      BY DEF Charged
    <3> HIDE DEF A, B
    <3>5. IsFiniteSet(A) /\ IsFiniteSet(B)
      BY <1>2, <3>4, FS_Subset DEF IsStore
    <3>6. Cardinality(A) + 1 = Cardinality(B) + 1
      <4>1. Cardinality(A \cup {key}) = Cardinality(A) + 1
        BY <3>3, <3>5, FS_AddElement
      <4>2. Cardinality(B \cup {k}) = Cardinality(B) + 1
        BY <3>3, <3>5, FS_AddElement
      <4> QED
        BY <3>3, <4>1, <4>2
    <3>7. /\ \A x \in A \cup {key} : st2[x].size \in Nat
          /\ \A x \in B \cup {k} : st2[x].size \in Nat
      BY <1>1, <1>2, <3>4 DEF IsStore
    <3>8. Bytes(st2, A \cup {key}) = Bytes(st2, A) + size
      BY <1>1, <3>3, <3>5, <3>7, BytesAdd
    <3>9. Bytes(st2, B \cup {k}) = Bytes(st2, B) + st2[k].size
      BY <3>3, <3>5, <3>7, BytesAdd
    <3>10. /\ scope # "total" => Cardinality(B) + 1 <= EntryLimit(k[1], scope)
           /\ Bytes(st2, B) + st2[k].size <= ByteLimit(k[1], scope)
      BY <2>3, <3>1, <3>3, <3>6, <3>8, <3>9
    <3> QED
      BY <3>10 DEF Fits, B
  <2> QED
    BY <2>4, <2>5, <2>6
<1> QED
  BY <1>2, <1>3 DEF WithinBudget, st2

LEMMA ReclaimDrops ==
    ASSUME NEW st, IsStore(st), WithinBudget(st), NEW key, NEW scope, NEW t \in Nat
    PROVE  LET st2 == Reclaim(st, key, scope, t)
           IN  IsStore(st2) /\ WithinBudget(st2) /\ Keeps(st, st2, {}, t)
<1>1. CASE scope = "none"
  BY <1>1 DEF Reclaim, Keeps
<1>2. CASE scope # "none"
  <2> DEFINE K == Charged(st, key, scope) \cap Expired(st, t)
  <2>1. Reclaim(st, key, scope, t) = Drop(st, K)
    BY <1>2 DEF Reclaim
  <2>2. K \subseteq Expired(st, t)
    OBVIOUS
  <2>3. \A k \in DOMAIN st : st[k].exp \in Nat
    BY DEF IsStore
  <2> HIDE DEF K
  <2>4. Keeps(st, Drop(st, K), {}, t)
    BY <2>2, <2>3 DEF Keeps, Drop, Restrict, Expired
  <2> QED
    BY <2>1, <2>4, DropKeepsBudget
<1> QED
  BY <1>1, <1>2

\* _store: the key is written or the write is refused, nothing else is written,
\* and only expired entries make room.
LEMMA StoreEffect ==
    ASSUME NEW st, IsStore(st), WithinBudget(st), NEW key, key[1] \in DOMAIN Budget,
           NEW val, NEW size \in Nat, NEW exp \in Nat, NEW t \in Nat
    PROVE  LET s == Store(st, key, val, size, exp, t)
           IN  /\ IsStore(s.kv) /\ WithinBudget(s.kv) /\ s.ok \in BOOLEAN
               /\ s.ok => /\ key \in DOMAIN s.kv
                          /\ s.kv[key] = [val |-> val, size |-> size, exp |-> exp]
                          /\ Keeps(st, s.kv, {key}, t)
               /\ ~s.ok => Keeps(st, s.kv, {}, t)
<1> DEFINE st1 == Reclaim(st, key, RefusingScope(st, key, size), t)
           refused == RefusingScope(st1, key, size)
           entry == [val |-> val, size |-> size, exp |-> exp]
           st2 == Put(st1, key, entry)
           st3 == Reclaim(st1, key, refused, t)
           s   == Store(st, key, val, size, exp, t)
<1>1. s = IF refused = "none" THEN [ok |-> TRUE, kv |-> st2] ELSE [ok |-> FALSE, kv |-> st3]
  BY DEF Store
<1>2. IsStore(st1) /\ WithinBudget(st1) /\ Keeps(st, st1, {}, t)
  BY ReclaimDrops
<1> HIDE DEF st1
<1>3. CASE refused = "none"
  <2>1. \A scope \in ScopeNames : Fits(st1, key, size, scope)
    BY <1>3, NoScopeRefuses
  <2>2. IsStore(st2) /\ WithinBudget(st2)
    BY <1>2, <2>1, PutKeepsBudget
  <2>3. key \in DOMAIN st2 /\ st2[key] = entry
    BY DEF Put
  <2>4. Keeps(st, st2, {key}, t)
    BY <1>2 DEF Put, Keeps
  <2> HIDE DEF refused, st2, st3, s, entry
  <2>5. s.ok = TRUE /\ s.kv = st2
    BY <1>1, <1>3
  <2>6. /\ IsStore(s.kv) /\ WithinBudget(s.kv) /\ s.ok \in BOOLEAN
        /\ s.ok => key \in DOMAIN s.kv /\ s.kv[key] = entry /\ Keeps(st, s.kv, {key}, t)
        /\ ~s.ok => Keeps(st, s.kv, {}, t)
    BY <2>2, <2>3, <2>4, <2>5
  <2> QED
    BY <2>6 DEF s, entry
<1>4. CASE refused # "none"
  <2>1. IsStore(st3) /\ WithinBudget(st3) /\ Keeps(st1, st3, {}, t)
    BY <1>2, ReclaimDrops
  <2> HIDE DEF refused, st2, st3, s, entry
  <2>2. Keeps(st, st3, {}, t)
    BY <1>2, <2>1 DEF Keeps
  <2>3. s.ok = FALSE /\ s.kv = st3
    BY <1>1, <1>4
  <2> QED
    BY <2>1, <2>2, <2>3 DEF s
<1> QED
  BY <1>3, <1>4

\* An overwrite no larger than the entry in place is never refused.
LEMMA OverwriteIsStored ==
    ASSUME NEW st, IsStore(st), WithinBudget(st), NEW key \in DOMAIN st,
           NEW val, NEW size \in Nat, size <= st[key].size, NEW exp, NEW t
    PROVE  Store(st, key, val, size, exp, t).ok
<1>1. ASSUME NEW scope \in ScopeNames PROVE Fits(st, key, size, scope)
  <2> DEFINE A == Charged(st, key, scope) \ {key}
  <2>1. Fits(st, key, st[key].size, scope)
    BY DEF WithinBudget
  <2>2. st[key].size \in Nat /\ key[1] \in DOMAIN Budget
    BY DEF IsStore
  <2>3. Bytes(st, A) \in Nat
    <3>1. A \subseteq DOMAIN st
      BY DEF Charged
    <3> HIDE DEF A
    <3>2. IsFiniteSet(A)
      BY <3>1, FS_Subset DEF IsStore
    <3> QED
      BY <3>1, <3>2, BytesFinite DEF IsStore
  <2>4. ByteLimit(key[1], scope) \in Nat
    BY <2>2, LimitsAreNat
  <2>5. Bytes(st, A) + st[key].size <= ByteLimit(key[1], scope)
    BY <2>1 DEF Fits
  <2>6. Bytes(st, A) + size <= ByteLimit(key[1], scope)
    <3> HIDE DEF A
    <3> QED
      BY <2>2, <2>3, <2>4, <2>5
  <2> QED
    BY <2>1, <2>6 DEF Fits
<1>2. RefusingScope(st, key, size) = "none"
  BY <1>1, NoScopeRefuses
<1> QED
  BY <1>2 DEF Store, Reclaim


LEMMA TouchDrops ==
    ASSUME NEW st, IsStore(st), WithinBudget(st), NEW key, NEW t \in Nat
    PROVE  LET st2 == Touch(st, key, t)
           IN  IsStore(st2) /\ WithinBudget(st2) /\ Keeps(st, st2, {}, t)
<1>1. \A k \in DOMAIN st : st[k].exp \in Nat
  BY DEF IsStore
<1>2. Keeps(st, Touch(st, key, t), {}, t)
  BY <1>1 DEF Keeps, Touch, Drop, Restrict, Expired
<1> QED
  BY <1>2, DropKeepsBudget DEF Touch

\* set_if_absent: a live entry stays as it is; the winner finds none and is stored.
LEMMA SetIfAbsentEffect ==
    ASSUME NEW st, IsStore(st), WithinBudget(st), NEW key, key[1] \in DOMAIN Budget,
           NEW val, NEW size \in Nat, NEW ttl \in Nat, NEW t \in Nat
    PROVE  LET c == SetIfAbsent(st, key, val, size, ttl, t)
           IN  /\ IsStore(c.kv) /\ WithinBudget(c.kv) /\ c.won \in BOOLEAN
               /\ c.won => /\ ~Live(st, key, t) /\ key \in DOMAIN c.kv
                           /\ c.kv[key] = [val |-> val, size |-> size, exp |-> t + ttl]
                           /\ Keeps(st, c.kv, {key}, t)
               /\ ~c.won => Keeps(st, c.kv, {}, t)
<1> DEFINE c == SetIfAbsent(st, key, val, size, ttl, t)
           s == Store(Touch(st, key, t), key, val, size, t + ttl, t)
           e == [val |-> val, size |-> size, exp |-> t + ttl]
<1>1. CASE Live(st, key, t)
  <2>1. c.won = FALSE /\ c.kv = st
    BY <1>1 DEF SetIfAbsent
  <2>2. Keeps(st, st, {}, t)
    BY DEF Keeps
  <2> HIDE DEF c, s, e
  <2> QED
    BY <2>1, <2>2 DEF c
<1>2. CASE ~Live(st, key, t)
  <2>1. c = [ok |-> s.ok, won |-> s.ok, kv |-> s.kv]
    BY <1>2 DEF SetIfAbsent
  <2>2. IsStore(Touch(st, key, t)) /\ WithinBudget(Touch(st, key, t)) /\ Keeps(st, Touch(st, key, t), {}, t)
    BY TouchDrops
  <2>3. t + ttl \in Nat
    OBVIOUS
  <2>4. /\ IsStore(s.kv) /\ WithinBudget(s.kv) /\ s.ok \in BOOLEAN
        /\ s.ok => /\ key \in DOMAIN s.kv /\ s.kv[key] = e
                   /\ Keeps(Touch(st, key, t), s.kv, {key}, t)
        /\ ~s.ok => Keeps(Touch(st, key, t), s.kv, {}, t)
    BY <2>2, <2>3, StoreEffect
  <2> HIDE DEF s, e, c
  <2>5. c.won = s.ok /\ c.kv = s.kv
    BY <2>1
  <2>6. Keeps(Touch(st, key, t), s.kv, {key}, t) => Keeps(st, s.kv, {key}, t)
    BY <2>2 DEF Keeps
  <2>7. Keeps(Touch(st, key, t), s.kv, {}, t) => Keeps(st, s.kv, {}, t)
    BY <2>2 DEF Keeps
  <2>8. /\ IsStore(c.kv) /\ WithinBudget(c.kv) /\ c.won \in BOOLEAN
        /\ c.won => key \in DOMAIN c.kv /\ c.kv[key] = e /\ Keeps(st, c.kv, {key}, t)
        /\ ~c.won => Keeps(st, c.kv, {}, t)
    BY <2>4, <2>5, <2>6, <2>7
  <2> QED
    BY <1>2, <2>8 DEF c, e
<1> QED
  BY <1>1, <1>2

\* _incr: only the counter is written.
LEMMA IncrEffect ==
    ASSUME NEW st, IsStore(st), WithinBudget(st), NEW key, key[1] \in DOMAIN Budget,
           NEW size \in Nat, NEW ttl \in Nat, NEW t \in Nat
    PROVE  LET c == Incr(st, key, size, ttl, t)
           IN  IsStore(c.kv) /\ WithinBudget(c.kv) /\ Keeps(st, c.kv, {key}, t)
<1> DEFINE live  == Live(st, key, t)
           count == IF live THEN st[key].val + 1 ELSE 1
           exp   == IF live THEN st[key].exp ELSE t + ttl
           s     == Store(Touch(st, key, t), key, count, size, exp, t)
<1>1. Incr(st, key, size, ttl, t) = [ok |-> s.ok, kv |-> s.kv, count |-> count]
  BY DEF Incr
<1>2. IsStore(Touch(st, key, t)) /\ WithinBudget(Touch(st, key, t)) /\ Keeps(st, Touch(st, key, t), {}, t)
  BY TouchDrops
<1>3. exp \in Nat
  BY DEF IsStore, Live
<1> HIDE DEF live, count, exp
<1>4. /\ IsStore(s.kv) /\ WithinBudget(s.kv) /\ s.ok \in BOOLEAN
      /\ s.ok => Keeps(Touch(st, key, t), s.kv, {key}, t)
      /\ ~s.ok => Keeps(Touch(st, key, t), s.kv, {}, t)
  BY <1>2, <1>3, StoreEffect
<1> HIDE DEF s
<1>5. Keeps(st, s.kv, {key}, t)
  BY <1>2, <1>4 DEF Keeps
<1> QED
  BY <1>1, <1>4, <1>5


-----------------------------------------------------------------------------
(* The invariants *)

Places == {"absent", "new", "admit", "calling", "sent", "body", "persist",
           "answered", "failed", "refused", "replayed"}

TaskStates == {"none", "spawned", "reporting", "waiting", "writing", "recorded", "counted", "dropped"}

RowType == [pc : Places, key : Keys \cup {NoKey}, fp : Prints \cup {NoFp}, tries : Nat,
            ok : BOOLEAN]
ReqType == [Requests -> RowType]

TypeOK ==
    /\ now \in Nat /\ req \in ReqType
    /\ sent \in [Requests -> Nat] /\ guard \in [Requests -> Nat]
    /\ task \in [Streams -> TaskStates] /\ event \in [Requests -> {"none", "due", "tried"}]
    /\ permits \in Nat /\ closed \in BOOLEAN

\* A request that has not begun has no key, no guard and nothing on the wire; a
\* keyed one that has begun has its key; an unsafe one that may still be sent has
\* not been sent.
RowOK(r) ==
    /\ req[r].pc \in {"new", "absent"} => req[r].key = NoKey /\ guard[r] = 0 /\ sent[r] = 0
    /\ r \in Keyed /\ req[r].pc \notin {"new", "absent"} => req[r].key \in Keys
    /\ req[r].fp \notin SafePrints => /\ sent[r] <= 1
                                      /\ req[r].pc \in {"admit", "calling"} => sent[r] = 0

\* A stream has a task only once it has an outcome, and its due report comes first.
TaskOK(r) ==
    /\ req[r].pc \notin {"answered", "failed"} => task[r] = "none"
    /\ req[r].pc # "persist"
    /\ task[r] \in {"waiting", "writing", "recorded", "counted"} /\ ~closed => event[r] # "due"

Writing == {r \in Streams : task[r] = "writing"}

GateOK == IsFiniteSet(Writing) /\ permits + Cardinality(Writing) = PersistLimit

CallInv ==
    /\ TypeOK /\ GateOK
    /\ \A r \in Requests : RowOK(r)
    /\ \A r \in Streams : TaskOK(r)

\* What a key's slot holds: a claim or a tombstone without a body, or a record.
SlotsSized ==
    \A k \in Keys :
        Slot(k) \in DOMAIN kv =>
            LET e == kv[Slot(k)]
            IN /\ e.val.ref \in BOOLEAN
               /\ e.size = RecordSize \/ (~e.val.ref /\ e.size \in {ClaimSize, TombstoneSize})

\* The body a live record refers to is there, and lasts as long as the record.
BodiesLast ==
    \A k \in Keys :
        LET s == Slot(k)
            b == BodySlot(k, kv[s].val.fp)
        IN Live(kv, s, now) /\ kv[s].val.ref =>
               b \in DOMAIN kv /\ kv[b].val = "body" /\ kv[b].exp >= kv[s].exp

StoreInv == IsStore(kv) /\ WithinBudget(kv) /\ SlotsSized /\ BodiesLast

\* While a guard lasts its key's slot is taken, at least for as long.
GuardsHold ==
    \A r \in Requests :
        guard[r] > now => /\ req[r].key \in Keys
                          /\ Live(kv, Slot(req[r].key), now)
                          /\ kv[Slot(req[r].key)].exp >= guard[r]

GuardsBounded == \A r \in Requests : guard[r] <= now + DoneTTL

GuardInv == GuardsHold /\ GuardsBounded

-----------------------------------------------------------------------------
(* The request's row *)

\* Every row but r's stays.
Alone(r) ==
    \A q \in Requests : q # r => req'[q] = req[q] /\ sent'[q] = sent[q] /\ guard'[q] = guard[q]

LEMMA InitCallInv == Init => CallInv
<1> SUFFICES ASSUME Init PROVE CallInv
  OBVIOUS
<1>1. TypeOK
  <2>1. PICK mix \in Mixes :
          req = [r \in Requests |-> [pc |-> IF r \in mix THEN "new" ELSE "absent",
                                     key |-> NoKey, fp |-> NoFp, tries |-> 0, ok |-> FALSE]]
    BY DEF Init
  <2>2. req \in ReqType
    BY <2>1 DEF ReqType, RowType, Places
  <2> QED
    BY <2>2, LimitsAssumption DEF Init, TypeOK, TaskStates
<1>2. Writing = {}
  BY DEF Init, Writing
<1>3. GateOK
  BY <1>2, FS_EmptySet, LimitsAssumption DEF GateOK, Init
<1>4. \A r \in Requests : RowOK(r) /\ req[r].pc \in {"new", "absent"}
  BY DEF Init, RowOK
<1>5. \A r \in Streams : TaskOK(r)
  BY <1>4 DEF Init, TaskOK, Requests
<1> QED
  BY <1>1, <1>3, <1>4, <1>5 DEF CallInv

LEMMA RowWritten ==
    ASSUME TypeOK, NEW r \in Requests, NEW row \in RowType, req' = [req EXCEPT ![r] = row]
    PROVE  /\ req' \in ReqType /\ req'[r] = row
           /\ \A q \in Requests : q # r => req'[q] = req[q]
  BY DEF TypeOK, ReqType

LEMMA GotoRow ==
    ASSUME TypeOK, NEW r \in Requests, NEW pc \in Places, Goto(r, pc)
    PROVE  /\ req' \in ReqType /\ \A q \in Requests : q # r => req'[q] = req[q]
           /\ req'[r].pc = pc /\ req'[r].key = req[r].key /\ req'[r].fp = req[r].fp
<1> DEFINE row == [req[r] EXCEPT !.pc = pc]
<1>1. req' = [req EXCEPT ![r] = row]
  BY DEF Goto
<1>2. req[r] \in RowType
  BY DEF TypeOK, ReqType
<1>3. row \in RowType /\ row.pc = pc /\ row.key = req[r].key /\ row.fp = req[r].fp
  BY ONLY <1>2, pc \in Places DEF RowType
<1> HIDE DEF row
<1> QED
  BY <1>1, <1>3, RowWritten

LEMMA OutcomeRow ==
    ASSUME TypeOK, NEW r \in Requests, NEW pc \in Places, NEW ok \in BOOLEAN,
           req' = [req EXCEPT ![r].pc = pc, ![r].ok = ok]
    PROVE  /\ req' \in ReqType /\ \A q \in Requests : q # r => req'[q] = req[q]
           /\ req'[r].pc = pc /\ req'[r].key = req[r].key /\ req'[r].fp = req[r].fp
<1> DEFINE row == [req[r] EXCEPT !.pc = pc, !.ok = ok]
<1>1. req' = [req EXCEPT ![r] = row]
  OBVIOUS
<1>2. req[r] \in RowType
  BY DEF TypeOK, ReqType
<1>3. row \in RowType /\ row.pc = pc /\ row.key = req[r].key /\ row.fp = req[r].fp
  BY ONLY <1>2, pc \in Places, ok \in BOOLEAN DEF RowType
<1> HIDE DEF row
<1> QED
  BY <1>1, <1>3, RowWritten

LEMMA OverRow ==
    ASSUME TypeOK, NEW r \in Requests, NEW pc \in Places, Over(r, pc)
    PROVE  /\ req' \in ReqType /\ \A q \in Requests : q # r => req'[q] = req[q]
           /\ req'[r].pc = pc /\ req'[r].key = req[r].key /\ req'[r].fp = req[r].fp
<1> DEFINE row == [req[r] EXCEPT !.pc = pc, !.tries = 0, !.ok = FALSE]
<1>1. req' = [req EXCEPT ![r] = row]
  BY DEF Over
<1>2. req[r] \in RowType
  BY DEF TypeOK, ReqType
<1>3. row \in RowType /\ row.pc = pc /\ row.key = req[r].key /\ row.fp = req[r].fp
  BY ONLY <1>2, pc \in Places DEF RowType
<1> HIDE DEF row
<1> QED
  BY <1>1, <1>3, RowWritten

LEMMA KeyedRow ==
    ASSUME TypeOK, NEW r \in Requests, NEW pc \in Places, NEW k \in Keys, NEW f \in Prints,
           req' = [req EXCEPT ![r].key = k, ![r].fp = f, ![r].pc = pc]
    PROVE  /\ req' \in ReqType /\ \A q \in Requests : q # r => req'[q] = req[q]
           /\ req'[r].pc = pc /\ req'[r].key = k
<1> DEFINE row == [req[r] EXCEPT !.key = k, !.fp = f, !.pc = pc]
<1>1. req' = [req EXCEPT ![r] = row]
  OBVIOUS
<1>2. req[r] \in RowType
  BY DEF TypeOK, ReqType
<1>3. row \in RowType /\ row.pc = pc /\ row.key = k
  BY ONLY <1>2, pc \in Places, k \in Keys, f \in Prints DEF RowType
<1> HIDE DEF row
<1> QED
  BY <1>1, <1>3, RowWritten

\* A step of one request that leaves the background tasks alone.
LEMMA RowMoves ==
    ASSUME CallInv, NEW r \in Requests, Alone(r),
           now' \in Nat, req' \in ReqType, sent' \in [Requests -> Nat], guard' \in [Requests -> Nat],
           event' \in [Requests -> {"none", "due", "tried"}], UNCHANGED <<task, permits, closed>>,
           \A q \in Streams : event'[q] = event[q],
           RowOK(r)',
           r \in Streams => /\ req'[r].pc \in {"answered", "failed"} \/ task[r] = "none"
                            /\ req'[r].pc # "persist"
    PROVE  CallInv'
<1>1. TypeOK'
  BY DEF CallInv, TypeOK
<1>2. GateOK'
  BY DEF CallInv, GateOK, Writing
<1>3. \A q \in Requests : RowOK(q)'
  BY DEF CallInv, Alone, RowOK
<1>4. ASSUME NEW q \in Streams PROVE TaskOK(q)'
  <2>1. TaskOK(q) /\ q \in Requests
    BY DEF CallInv, Requests
  <2>2. CASE q = r
    BY <2>1, <2>2 DEF TaskOK
  <2>3. CASE q # r
    BY <2>1, <2>3 DEF TaskOK, Alone
  <2> QED
    BY <2>2, <2>3
<1> QED
  BY <1>1, <1>2, <1>3, <1>4 DEF CallInv

\* A stream ends and its outcome goes to a task; a report that falls due goes with it.
LEMMA StreamHandsOver ==
    ASSUME CallInv, NEW r \in Streams, req[r].pc \notin {"answered", "failed", "new", "absent"},
           Over(r, "answered"), Deliver(r), now' = now, UNCHANGED <<sent, guard>>,
           event' \in [Requests -> {"none", "due", "tried"}],
           \A q \in Streams : q # r => event'[q] = event[q]
    PROVE  CallInv'
<1>1. TypeOK /\ r \in Requests /\ "answered" \in Places
  BY DEF CallInv, Requests, Places
<1>2. /\ req' \in ReqType /\ \A q \in Requests : q # r => req'[q] = req[q]
      /\ req'[r].pc = "answered" /\ req'[r].key = req[r].key /\ req'[r].fp = req[r].fp
  BY <1>1, OverRow
<1>3. task[r] = "none"
  BY DEF CallInv, TaskOK
<1>4. /\ task' = [task EXCEPT ![r] = IF closed THEN "counted" ELSE "spawned"]
      /\ UNCHANGED <<permits, closed>>
  BY DEF Deliver
<1>5. TypeOK'
  BY <1>1, <1>2, <1>4 DEF TypeOK, TaskStates
<1>6. Writing' = Writing
  BY <1>1, <1>3, <1>4 DEF Writing, TypeOK
<1>7. GateOK'
  BY <1>4, <1>6 DEF CallInv, GateOK
<1>8. \A q \in Requests : RowOK(q)'
  BY <1>1, <1>2 DEF CallInv, RowOK
<1>9. ASSUME NEW q \in Streams PROVE TaskOK(q)'
  <2>1. TaskOK(q) /\ q \in Requests
    BY DEF CallInv, Requests
  <2>2. CASE q = r
    BY <1>1, <1>2, <1>4, <2>2 DEF TaskOK, TypeOK
  <2>3. CASE q # r
    BY <1>1, <1>2, <1>4, <2>1, <2>3 DEF TaskOK, TypeOK
  <2> QED
    BY <2>2, <2>3
<1> QED
  BY <1>5, <1>7, <1>8, <1>9 DEF CallInv

\* The end of a call without a response, whichever runner ends it.
LEMMA ErrorEndsCall ==
    ASSUME CallInv, NEW r \in Requests, req[r].pc \in {"admit", "calling", "sent"},
           EndsInError(r), now' = now, UNCHANGED <<sent, guard>>,
           event' \in [Requests -> {"none", "due", "tried"}],
           \A q \in Requests : q # r => event'[q] = event[q]
    PROVE  CallInv'
<1>1. TypeOK
  BY DEF CallInv
<1>2. CASE r \in Keyed
  <2>1. req' = [req EXCEPT ![r].pc = "persist", ![r].ok = FALSE] /\ UNCHANGED <<task, permits, closed>>
    BY <1>2 DEF EndsInError, Buffered
  <2>2. /\ req' \in ReqType /\ \A q \in Requests : q # r => req'[q] = req[q]
        /\ req'[r].pc = "persist" /\ req'[r].key = req[r].key /\ req'[r].fp = req[r].fp
    <3>1. "persist" \in Places
      BY DEF Places
    <3> QED
      BY <1>1, <2>1, <3>1, OutcomeRow
  <2>3. r \notin Streams
    BY <1>2, RequestsAssumption
  <2>4. Alone(r) /\ \A q \in Streams : event'[q] = event[q]
    BY <2>2, <2>3 DEF Alone, Requests
  <2>5. RowOK(r)'
    BY <2>2 DEF CallInv, RowOK
  <2>6. now' \in Nat /\ sent' \in [Requests -> Nat] /\ guard' \in [Requests -> Nat]
    BY <1>1 DEF TypeOK
  <2> QED
    BY <2>1, <2>2, <2>3, <2>4, <2>5, <2>6, RowMoves
<1>3. CASE r \notin Keyed
  <2>1. Over(r, "answered") /\ Deliver(r)
    BY <1>3 DEF EndsInError, Buffered
  <2>2. r \in Streams
    BY <1>3 DEF Requests
  <2>3. \A q \in Streams : q # r => event'[q] = event[q]
    BY DEF Requests
  <2> QED
    BY <2>1, <2>2, <2>3, StreamHandsOver
<1> QED
  BY <1>2, <1>3


-----------------------------------------------------------------------------
(* The actions on a call *)

LEMMA BeginCall ==
    ASSUME CallInv, NEW r \in Keyed, NEW k \in Keys, NEW f \in Prints, Begin(r, k, f)
    PROVE  CallInv'
<1>1. r \in Requests /\ r \notin Streams /\ TypeOK /\ RowOK(r)
  BY RequestsAssumption DEF Requests, CallInv
<1>2. PICK pc \in {"admit", "refused", "replayed"} :
        req' = [req EXCEPT ![r].key = k, ![r].fp = f, ![r].pc = pc]
  BY DEF Begin, Verdict
<1>3. /\ req' \in ReqType /\ \A q \in Requests : q # r => req'[q] = req[q]
      /\ req'[r].pc = pc /\ req'[r].key = k
  <2>1. pc \in Places
    BY DEF Places
  <2>2. TypeOK /\ r \in Requests /\ req' = [req EXCEPT ![r].key = k, ![r].fp = f, ![r].pc = pc]
    BY <1>1, <1>2
  <2>3. /\ req' \in ReqType /\ \A q \in Requests : q # r => req'[q] = req[q]
        /\ req'[r].pc = pc
    BY <2>1, <2>2, KeyedRow
  <2>4. req'[r].key = k
    BY <2>2 DEF TypeOK, ReqType, RowType
  <2> QED
    BY <2>3, <2>4
<1>4. /\ guard' \in [Requests -> Nat]
      /\ \A q \in Requests : q # r => guard'[q] = guard[q]
  <2>1. now + PendingTTL \in Nat
    BY <1>1, LimitsAssumption DEF TypeOK
  <2>2. guard' = [guard EXCEPT ![r] = now + PendingTTL] \/ guard' = guard
    BY DEF Begin
  <2> QED
    BY <1>1, <2>1, <2>2 DEF TypeOK
<1>5. sent[r] = 0 /\ sent' = sent /\ now' = now /\ UNCHANGED <<task, event, permits, closed>>
  BY <1>1 DEF Begin, RowOK, streamVars
<1>6. RowOK(r)' /\ Alone(r)
  BY <1>3, <1>4, <1>5 DEF RowOK, Alone
<1>7. now' \in Nat /\ sent' \in [Requests -> Nat] /\ event' \in [Requests -> {"none", "due", "tried"}]
  BY <1>1, <1>5 DEF TypeOK
<1> QED
  BY <1>1, <1>3, <1>4, <1>5, <1>6, <1>7, RowMoves

\* A step that only moves a request to another place, its outcome apart.
LEMMA PlaceMoves ==
    ASSUME CallInv, NEW r \in Requests, req' \in ReqType,
           \A q \in Requests : q # r => req'[q] = req[q],
           req'[r].key = req[r].key, req'[r].fp = req[r].fp,
           req'[r].pc \notin {"new", "absent"}, r \in Keyed => req[r].pc \notin {"new", "absent"},
           req'[r].pc = "persist" => r \notin Streams,
           req'[r].pc \in {"admit", "calling"} /\ req[r].fp \notin SafePrints => sent[r] = 0,
           req'[r].pc \in {"answered", "failed"} \/ req[r].pc \notin {"answered", "failed"},
           now' = now, UNCHANGED <<sent, guard, streamVars>>
    PROVE  CallInv'
<1>1. TypeOK /\ RowOK(r)
  BY DEF CallInv
<1>2. /\ now' \in Nat /\ sent' \in [Requests -> Nat] /\ guard' \in [Requests -> Nat]
      /\ event' \in [Requests -> {"none", "due", "tried"}] /\ UNCHANGED <<task, permits, closed>>
      /\ \A q \in Streams : event'[q] = event[q]
  BY <1>1 DEF TypeOK, streamVars
<1>3. RowOK(r)'
  BY <1>1 DEF RowOK
<1>4. Alone(r)
  BY DEF Alone
<1>5. r \in Streams => /\ req'[r].pc \in {"answered", "failed"} \/ task[r] = "none"
                       /\ req'[r].pc # "persist"
  BY DEF CallInv, TaskOK
<1> QED
  BY <1>2, <1>3, <1>4, <1>5, RowMoves

LEMMA StartStreamCall ==
    ASSUME CallInv, NEW r \in Streams, StartStream(r) PROVE CallInv'
<1>1. r \in Requests /\ r \notin Keyed /\ TypeOK /\ RowOK(r) /\ "admit" \in Places
  BY RequestsAssumption DEF Requests, CallInv, Places
<1>2. Goto(r, "admit") /\ req[r].pc = "new" /\ UNCHANGED <<now, sent, guard, streamVars>>
  BY DEF StartStream
<1>3. sent[r] = 0
  BY <1>1, <1>2 DEF RowOK
<1> QED
  BY <1>1, <1>2, <1>3, GotoRow, PlaceMoves

LEMMA InjectFailsCall ==
    ASSUME CallInv, NEW r \in Requests, InjectFails(r) PROVE CallInv'
<1>1. TypeOK /\ "failed" \in Places
  BY DEF CallInv, Places
<1>2. Over(r, "failed") /\ req[r].pc = "admit" /\ UNCHANGED <<now, sent, guard, streamVars>>
  BY DEF InjectFails
<1> QED
  BY <1>1, <1>2, OverRow, PlaceMoves

LEMMA AttemptCall ==
    ASSUME CallInv, NEW r \in Requests, Attempt(r) PROVE CallInv'
<1>1. TypeOK /\ RowOK(r) /\ req[r].pc = "admit" /\ UNCHANGED <<now, sent, guard>>
  BY DEF CallInv, Attempt
<1>2. CASE Live(kv, OpenKey, now)
  <2>1. EndsInError(r) /\ (event' = event \/ event' = [event EXCEPT ![r] = "due"])
    BY <1>2 DEF Attempt
  <2>2. /\ event' \in [Requests -> {"none", "due", "tried"}]
        /\ \A q \in Requests : q # r => event'[q] = event[q]
    BY <1>1, <2>1 DEF TypeOK
  <2> QED
    BY <1>1, <2>1, <2>2, ErrorEndsCall
<1>3. CASE ~Live(kv, OpenKey, now)
  <2>1. /\ req' = [req EXCEPT ![r].pc = "calling", ![r].tries = @ + 1]
        /\ UNCHANGED streamVars
    BY <1>3 DEF Attempt
  <2>2. /\ req' \in ReqType /\ \A q \in Requests : q # r => req'[q] = req[q]
        /\ req'[r].pc = "calling" /\ req'[r].key = req[r].key /\ req'[r].fp = req[r].fp
    BY <1>1, <2>1 DEF TypeOK, ReqType, RowType, Places
  <2>3. req[r].fp \notin SafePrints => sent[r] = 0
    BY <1>1 DEF RowOK
  <2> QED
    BY <1>1, <2>1, <2>2, <2>3, PlaceMoves
<1> QED
  BY <1>2, <1>3

LEMMA TransmitCall ==
    ASSUME CallInv, NEW r \in Requests, Transmit(r) PROVE CallInv'
<1>1. TypeOK /\ RowOK(r) /\ "sent" \in Places
  BY DEF CallInv, Places
<1>2. /\ Goto(r, "sent") /\ req[r].pc = "calling" /\ sent' = [sent EXCEPT ![r] = @ + 1]
      /\ UNCHANGED <<now, guard>> /\ UNCHANGED <<task, event, permits, closed>>
  BY DEF Transmit, streamVars
<1>3. /\ req' \in ReqType /\ \A q \in Requests : q # r => req'[q] = req[q]
      /\ req'[r].pc = "sent" /\ req'[r].key = req[r].key /\ req'[r].fp = req[r].fp
  BY <1>1, <1>2, GotoRow
<1>4. sent' \in [Requests -> Nat] /\ sent'[r] = sent[r] + 1 /\ \A q \in Requests : q # r => sent'[q] = sent[q]
  BY <1>1, <1>2 DEF TypeOK
<1>5. RowOK(r)' /\ Alone(r)
  BY <1>1, <1>2, <1>3, <1>4 DEF RowOK, Alone
<1>6. r \in Streams => task[r] = "none"
  BY <1>2 DEF CallInv, TaskOK
<1>7. /\ now' \in Nat /\ guard' \in [Requests -> Nat] /\ event' \in [Requests -> {"none", "due", "tried"}]
      /\ \A q \in Streams : event'[q] = event[q]
  BY <1>1, <1>2 DEF TypeOK
<1> QED
  BY <1>2, <1>3, <1>4, <1>5, <1>6, <1>7, RowMoves

\* The retry runner after a failure: an unsafe call goes back only if it was not sent.
LEMMA RetryOrFailCall ==
    ASSUME CallInv, NEW r \in Requests, NEW presend \in BOOLEAN,
           req[r].pc = IF presend THEN "calling" ELSE "sent",
           RetryOrFail(r, presend), UNCHANGED <<now, sent, guard, event>>
    PROVE  CallInv'
<1>1. TypeOK /\ RowOK(r) /\ "admit" \in Places
  BY DEF CallInv, Places
<1>2. CASE MayRetry(r, presend) /\ Goto(r, "admit") /\ UNCHANGED <<task, permits, closed>>
  <2>1. req[r].fp \notin SafePrints => sent[r] = 0
    BY <1>1, <1>2 DEF MayRetry, RowOK
  <2>2. UNCHANGED streamVars
    BY <1>2 DEF streamVars
  <2>3. /\ req' \in ReqType /\ \A q \in Requests : q # r => req'[q] = req[q]
        /\ req'[r].pc = "admit" /\ req'[r].key = req[r].key /\ req'[r].fp = req[r].fp
    BY <1>1, <1>2, GotoRow
  <2> QED
    BY <2>1, <2>2, <2>3, PlaceMoves
<1>3. CASE EndsInError(r)
  BY <1>1, <1>3, ErrorEndsCall DEF TypeOK
<1> QED
  BY <1>2, <1>3 DEF RetryOrFail

LEMMA ErrorCall ==
    ASSUME CallInv, NEW r \in Requests, PreSendError(r) \/ PostSendError(r) \/ Deadline(r)
    PROVE  CallInv'
<1>1. CASE PreSendError(r)
  <2>1. req[r].pc = "calling" /\ RetryOrFail(r, TRUE) /\ UNCHANGED <<now, sent, guard, event>>
    BY <1>1 DEF PreSendError
  <2> QED
    BY <2>1, RetryOrFailCall
<1>2. CASE PostSendError(r)
  <2>1. req[r].pc = "sent" /\ RetryOrFail(r, FALSE) /\ UNCHANGED <<now, sent, guard, event>>
    BY <1>2 DEF PostSendError
  <2> QED
    BY <2>1, RetryOrFailCall
<1>3. CASE Deadline(r)
  <2>1. /\ req[r].pc \in {"admit", "calling", "sent"} /\ EndsInError(r)
        /\ UNCHANGED <<now, sent, guard, event>>
    BY <1>3 DEF Deadline
  <2> QED
    BY <2>1, ErrorEndsCall DEF CallInv, TypeOK
<1> QED
  BY <1>1, <1>2, <1>3

LEMMA RespondCall ==
    ASSUME CallInv, NEW r \in Requests, NEW status, Respond(r, status) PROVE CallInv'
<1>1. /\ TypeOK /\ RowOK(r) /\ "admit" \in Places /\ req[r].pc = "sent"
      /\ UNCHANGED <<now, sent, guard, streamVars>>
  BY DEF CallInv, Places, Respond
<1>2. CASE MayRetry(r, FALSE) /\ Goto(r, "admit")
  <2>1. req[r].fp \in SafePrints
    BY <1>2 DEF MayRetry
  <2> QED
    BY <1>1, <1>2, <2>1, GotoRow, PlaceMoves
<1>3. CASE req' = [req EXCEPT ![r].pc = IF Buffered(r) THEN "persist" ELSE "body", ![r].ok = TRUE]
  <2>1. /\ req' \in ReqType /\ \A q \in Requests : q # r => req'[q] = req[q]
        /\ req'[r].key = req[r].key /\ req'[r].fp = req[r].fp
        /\ req'[r].pc = IF r \in Keyed THEN "persist" ELSE "body"
    <3> DEFINE pc == IF r \in Keyed THEN "persist" ELSE "body"
    <3>1. pc \in Places
      BY DEF Places
    <3>2. req' = [req EXCEPT ![r].pc = pc, ![r].ok = TRUE]
      BY <1>3 DEF Buffered
    <3> HIDE DEF pc
    <3>3. /\ req' \in ReqType /\ \A q \in Requests : q # r => req'[q] = req[q]
          /\ req'[r].key = req[r].key /\ req'[r].fp = req[r].fp /\ req'[r].pc = pc
      BY <1>1, <3>1, <3>2, OutcomeRow
    <3> QED
      BY <3>3 DEF pc
  <2>2. req'[r].pc = "persist" => r \notin Streams
    BY <2>1, RequestsAssumption
  <2> QED
    BY <1>1, <2>1, <2>2, PlaceMoves
<1> QED
  BY <1>2, <1>3 DEF Respond

LEMMA PersistCall ==
    ASSUME CallInv, NEW r \in Keyed, Persist(r) PROVE CallInv'
<1>1. r \in Requests /\ r \notin Streams /\ TypeOK /\ RowOK(r)
  BY RequestsAssumption DEF Requests, CallInv
<1>2. /\ req[r].pc = "persist" /\ UNCHANGED <<now, sent>> /\ UNCHANGED <<task, permits, closed>>
      /\ event' = event \/ event' = [event EXCEPT ![r] = "tried"]
      /\ guard' = guard \/ guard' = [guard EXCEPT ![r] = now + DoneTTL]
      /\ Over(r, "answered") \/ Over(r, "failed")
  BY DEF Persist, Complete
<1>3. /\ req' \in ReqType /\ \A q \in Requests : q # r => req'[q] = req[q]
      /\ req'[r].pc \in {"answered", "failed"} /\ req'[r].key = req[r].key /\ req'[r].fp = req[r].fp
  <2>1. {"answered", "failed"} \subseteq Places
    BY DEF Places
  <2> QED
    BY <1>1, <1>2, <2>1, OverRow
<1>4. now + DoneTTL \in Nat
  BY <1>1, LimitsAssumption DEF TypeOK
<1>5. /\ guard' \in [Requests -> Nat] /\ \A q \in Requests : q # r => guard'[q] = guard[q]
  BY <1>1, <1>2, <1>4 DEF TypeOK
<1>6. /\ event' \in [Requests -> {"none", "due", "tried"}] /\ \A q \in Streams : event'[q] = event[q]
  BY <1>1, <1>2 DEF TypeOK, Requests
<1>7. RowOK(r)' /\ Alone(r) /\ now' \in Nat /\ sent' \in [Requests -> Nat]
  BY <1>1, <1>2, <1>3, <1>5 DEF RowOK, Alone, TypeOK
<1> QED
  BY <1>1, <1>2, <1>3, <1>5, <1>6, <1>7, RowMoves

LEMMA StreamEndsCall ==
    ASSUME CallInv, NEW r \in Streams, StreamEnds(r) PROVE CallInv'
<1>1. /\ req[r].pc = "body" /\ Over(r, "answered") /\ Deliver(r)
      /\ UNCHANGED <<now, sent, guard, event>>
  BY DEF StreamEnds
<1> QED
  BY <1>1, StreamHandsOver DEF CallInv, TypeOK


-----------------------------------------------------------------------------
(* The background tasks *)

\* A step of one task that is not about the gate.
LEMMA TaskMoves ==
    ASSUME CallInv, NEW r \in Streams, NEW to \in TaskStates, task' = [task EXCEPT ![r] = to],
           task[r] \notin {"none", "writing"}, to # "writing",
           UNCHANGED <<now, reqVars, permits, closed>>,
           event' \in [Requests -> {"none", "due", "tried"}],
           \A q \in Streams : q # r => event'[q] = event[q],
           to \in {"waiting", "recorded", "counted"} /\ ~closed => event'[r] # "due"
    PROVE  CallInv'
<1>1. TypeOK /\ UNCHANGED <<req, sent, guard>>
  BY DEF CallInv, reqVars
<1>2. TypeOK'
  BY <1>1 DEF TypeOK
<1>3. Writing' = Writing
  BY <1>1 DEF Writing, TypeOK
<1>4. GateOK'
  BY <1>3 DEF CallInv, GateOK
<1>5. \A q \in Requests : RowOK(q)'
  BY <1>1 DEF CallInv, RowOK
<1>6. ASSUME NEW q \in Streams PROVE TaskOK(q)'
  <2>1. TaskOK(q) /\ TaskOK(r)
    BY DEF CallInv
  <2>2. CASE q = r
    BY <1>1, <2>1, <2>2 DEF TaskOK, TypeOK
  <2>3. CASE q # r
    BY <1>1, <2>1, <2>3 DEF TaskOK, TypeOK
  <2> QED
    BY <2>2, <2>3
<1> QED
  BY <1>2, <1>4, <1>5, <1>6 DEF CallInv

\* A step of one task that takes or returns its slot of the gate.
LEMMA GateMoves ==
    ASSUME CallInv, NEW r \in Streams, NEW to \in {"writing", "recorded", "counted"},
           task[r] \in {"waiting", "writing"}, task' = [task EXCEPT ![r] = to],
           UNCHANGED <<now, reqVars, event, closed>>, permits' \in Nat,
           IsFiniteSet(Writing'), permits' + Cardinality(Writing') = PersistLimit
    PROVE  CallInv'
<1>1. TypeOK /\ UNCHANGED <<req, sent, guard>>
  BY DEF CallInv, reqVars
<1>2. TypeOK'
  BY <1>1 DEF TypeOK, TaskStates
<1>3. \A q \in Requests : RowOK(q)'
  BY <1>1 DEF CallInv, RowOK
<1>4. ASSUME NEW q \in Streams PROVE TaskOK(q)'
  <2>1. TaskOK(q) /\ TaskOK(r)
    BY DEF CallInv
  <2>2. CASE q = r
    BY <1>1, <2>1, <2>2 DEF TaskOK, TypeOK
  <2>3. CASE q # r
    BY <1>1, <2>1, <2>3 DEF TaskOK, TypeOK
  <2> QED
    BY <2>2, <2>3
<1> QED
  BY <1>2, <1>3, <1>4 DEF CallInv, GateOK

LEMMA AcquireTask ==
    ASSUME CallInv, NEW r \in Streams, Acquire(r) PROVE CallInv'
<1>1. /\ permits > 0 /\ task[r] = "waiting" /\ task' = [task EXCEPT ![r] = "writing"]
      /\ permits' = permits - 1 /\ UNCHANGED <<now, reqVars, event, closed>>
  BY DEF Acquire, Step
<1>2. TypeOK /\ IsFiniteSet(Writing) /\ permits + Cardinality(Writing) = PersistLimit
  BY DEF CallInv, GateOK
<1>3. Writing' = Writing \cup {r} /\ r \notin Writing
  BY <1>1, <1>2 DEF Writing, TypeOK
<1>4. IsFiniteSet(Writing \cup {r}) /\ Cardinality(Writing \cup {r}) = Cardinality(Writing) + 1
  BY <1>2, <1>3, FS_AddElement
<1>5. Cardinality(Writing) \in Nat /\ permits \in Nat
  BY <1>2, FS_CardinalityType DEF TypeOK
<1>6. permits' \in Nat /\ IsFiniteSet(Writing') /\ permits' + Cardinality(Writing') = PersistLimit
  BY <1>1, <1>2, <1>3, <1>4, <1>5
<1> QED
  BY <1>1, <1>6, GateMoves

\* A writing task that ends returns its slot, however it ends.
LEMMA SlotReturned ==
    ASSUME CallInv, NEW r \in Streams, task[r] = "writing", NEW to \in {"recorded", "counted"},
           task' = [task EXCEPT ![r] = to], permits' = permits + 1,
           UNCHANGED <<now, reqVars, event, closed>>
    PROVE  CallInv'
<1>1. TypeOK /\ IsFiniteSet(Writing) /\ permits + Cardinality(Writing) = PersistLimit
  BY DEF CallInv, GateOK
<1>2. Writing' = Writing \ {r} /\ r \in Writing
  BY <1>1 DEF Writing, TypeOK
<1>3. IsFiniteSet(Writing \ {r}) /\ Cardinality(Writing \ {r}) = Cardinality(Writing) - 1
  BY <1>1, <1>2, FS_RemoveElement
<1>4. Cardinality(Writing) \in Nat /\ permits \in Nat
  BY <1>1, FS_CardinalityType DEF TypeOK
<1>5. permits' \in Nat /\ IsFiniteSet(Writing') /\ permits' + Cardinality(Writing') = PersistLimit
  BY <1>1, <1>2, <1>3, <1>4
<1> QED
  BY <1>5, GateMoves

LEMMA TaskSteps ==
    ASSUME CallInv, NEW r \in Streams,
           TaskStart(r) \/ EmitEvent(r) \/ AcquireTimeout(r) \/ Write(r) \/ TaskTimeout(r)
    PROVE  CallInv'
<1>1. TypeOK /\ TaskOK(r) /\ r \in Requests
  BY DEF CallInv, Requests
<1>2. {"waiting", "reporting", "counted"} \subseteq TaskStates
  BY DEF TaskStates
<1>3. CASE TaskStart(r)
  <2> DEFINE to == IF event[r] = "due" THEN "reporting" ELSE "waiting"
  <2>1. /\ task[r] = "spawned" /\ task' = [task EXCEPT ![r] = to]
        /\ UNCHANGED <<now, reqVars, event, permits, closed>>
    BY <1>3 DEF TaskStart, Step
  <2>2. to \in TaskStates /\ to # "writing" /\ (to = "waiting" => event[r] # "due")
        /\ to \notin {"recorded", "counted"}
    BY <1>2
  <2>3. event' \in [Requests -> {"none", "due", "tried"}]
    BY <1>1, <2>1 DEF TypeOK
  <2> HIDE DEF to
  <2> QED
    BY <2>1, <2>2, <2>3, TaskMoves
<1>4. CASE EmitEvent(r)
  <2>1. /\ task[r] = "reporting" /\ task' = [task EXCEPT ![r] = "waiting"]
        /\ event' = [event EXCEPT ![r] = "tried"] /\ UNCHANGED <<now, reqVars, permits, closed>>
    BY <1>4 DEF EmitEvent, Step
  <2>2. /\ event' \in [Requests -> {"none", "due", "tried"}] /\ event'[r] = "tried"
        /\ \A q \in Streams : q # r => event'[q] = event[q]
    BY <1>1, <2>1 DEF TypeOK, Requests
  <2> QED
    BY <1>2, <2>1, <2>2, TaskMoves
<1>5. CASE AcquireTimeout(r)
  <2>1. /\ task[r] = "waiting" /\ task' = [task EXCEPT ![r] = "counted"]
        /\ UNCHANGED <<now, reqVars, event, permits, closed>>
    BY <1>5 DEF AcquireTimeout, Step
  <2>2. event' \in [Requests -> {"none", "due", "tried"}] /\ (~closed => event'[r] # "due")
    BY <1>1, <2>1 DEF TypeOK, TaskOK
  <2> QED
    BY <1>2, <2>1, <2>2, TaskMoves
<1>6. CASE Write(r)
  <2>1. PICK to \in {"recorded", "counted"} : task[r] = "writing" /\ task' = [task EXCEPT ![r] = to]
    BY <1>6 DEF Write, Step
  <2>2. permits' = permits + 1 /\ UNCHANGED <<now, reqVars, event, closed>>
    BY <1>6 DEF Write
  <2> QED
    BY <2>1, <2>2, SlotReturned
<1>7. CASE TaskTimeout(r)
  <2>1. /\ task[r] \in {"reporting", "waiting", "writing"} /\ task' = [task EXCEPT ![r] = "counted"]
        /\ permits' = IF task[r] = "writing" THEN permits + 1 ELSE permits
        /\ event' = IF task[r] = "reporting" THEN [event EXCEPT ![r] = "tried"] ELSE event
        /\ UNCHANGED <<now, reqVars, closed>>
    BY <1>7 DEF TaskTimeout
  <2>2. CASE task[r] = "writing"
    BY <2>1, <2>2, SlotReturned
  <2>3. CASE task[r] # "writing"
    <3>1. /\ event' \in [Requests -> {"none", "due", "tried"}]
          /\ \A q \in Streams : q # r => event'[q] = event[q]
          /\ ~closed => event'[r] # "due"
      BY <1>1, <2>1, <2>3 DEF TypeOK, Requests, TaskOK
    <3>2. permits' = permits
      BY <2>1, <2>3
    <3> QED
      BY <1>2, <2>1, <2>3, <3>1, <3>2, TaskMoves
  <2> QED
    BY <2>2, <2>3
<1> QED
  BY <1>3, <1>4, <1>5, <1>6, <1>7

\* The drain empties the gate at one stroke.
LEMMA DrainTasks ==
    ASSUME CallInv, Drain PROVE CallInv'
<1> DEFINE running == {"reporting", "waiting", "writing"}
<1>1. TypeOK /\ UNCHANGED <<now, req, sent, guard>> /\ closed' = TRUE
  BY DEF CallInv, Drain, reqVars
<1>2. permits' = permits + Cardinality(Writing)
  BY DEF Drain, Writing
<1>3. task' = [r \in Streams |-> CASE task[r] = "spawned" -> "dropped"
                                   [] task[r] \in running -> "counted"
                                   [] OTHER               -> task[r]]
  BY DEF Drain
<1>4. event' = [r \in Requests |-> IF r \in Streams /\ task[r] = "reporting" THEN "tried" ELSE event[r]]
  BY DEF Drain
<1>5. \A r \in Streams : /\ task'[r] \in TaskStates \ {"writing"}
                         /\ task[r] = "none" => task'[r] = "none"
  BY <1>1, <1>3 DEF TypeOK, TaskStates
<1>6. Writing' = {}
  BY <1>5 DEF Writing
<1>7. IsFiniteSet(Writing) /\ Cardinality(Writing) \in Nat
  BY FS_CardinalityType DEF CallInv, GateOK
<1>8. GateOK' /\ permits' \in Nat
  <2>1. permits + Cardinality(Writing) = PersistLimit /\ permits \in Nat
    BY <1>1 DEF CallInv, GateOK, TypeOK
  <2>2. IsFiniteSet({}) /\ Cardinality({}) = 0
    BY FS_EmptySet
  <2>3. permits' \in Nat /\ permits' + Cardinality(Writing') = PersistLimit /\ IsFiniteSet(Writing')
    BY <1>2, <1>6, <1>7, <2>1, <2>2
  <2> QED
    BY <2>3 DEF GateOK
<1>9. TypeOK'
  <2>1. task' \in [Streams -> TaskStates]
    BY <1>3, <1>5
  <2>2. event' \in [Requests -> {"none", "due", "tried"}]
    BY <1>1, <1>4 DEF TypeOK
  <2> QED
    BY <1>1, <1>8, <2>1, <2>2 DEF TypeOK
<1>10. \A r \in Requests : RowOK(r)'
  BY <1>1 DEF CallInv, RowOK
<1>11. \A r \in Streams : TaskOK(r)'
  BY <1>1, <1>5 DEF CallInv, TaskOK
<1> QED
  BY <1>8, <1>9, <1>10, <1>11 DEF CallInv

LEMMA NextCallInv == CallInv /\ [Next]_vars => CallInv'
<1> SUFFICES ASSUME CallInv, [Next]_vars PROVE CallInv'
  OBVIOUS
<1>1. ASSUME UNCHANGED <<req, sent, guard, task, event, permits, closed>>, now' \in Nat
      PROVE  CallInv'
  BY <1>1 DEF CallInv, TypeOK, GateOK, Writing, RowOK, TaskOK
<1>2. CASE Tick \/ Sweep \/ \E k \in OtherKeys : OtherClaim(k)
  <2>1. /\ UNCHANGED <<req, sent, guard, task, event, permits, closed>>
        /\ now' = now \/ now' = now + 1
    BY <1>2 DEF Tick, Sweep, OtherClaim, reqVars, streamVars
  <2>2. now' \in Nat
    BY <2>1 DEF CallInv, TypeOK
  <2> QED
    BY <1>1, <2>1, <2>2
<1>3. CASE Drain
  BY <1>3, DrainTasks
<1>4. CASE \E r \in Keyed, k \in Keys, f \in Prints : Begin(r, k, f)
  BY <1>4, BeginCall
<1>5. CASE \E r \in Streams : StartStream(r)
  BY <1>5, StartStreamCall
<1>6. ASSUME NEW r \in Requests,
             \/ InjectFails(r) \/ Attempt(r) \/ Transmit(r)
             \/ PreSendError(r) \/ PostSendError(r) \/ Deadline(r)
             \/ \E s \in Statuses : Respond(r, s)
      PROVE  CallInv'
  BY <1>6, InjectFailsCall, AttemptCall, TransmitCall, ErrorCall, RespondCall
<1>7. CASE \E r \in Keyed : Persist(r)
  BY <1>7, PersistCall
<1>8. ASSUME NEW r \in Streams,
             \/ StreamEnds(r) \/ TaskStart(r) \/ EmitEvent(r)
             \/ Acquire(r) \/ AcquireTimeout(r) \/ Write(r) \/ TaskTimeout(r)
      PROVE  CallInv'
  BY <1>8, StreamEndsCall, TaskSteps, AcquireTask
<1>9. CASE UNCHANGED vars
  <2>1. now' \in Nat
    BY <1>9 DEF vars, CallInv, TypeOK
  <2> QED
    BY <1>1, <1>9, <2>1 DEF vars, reqVars, streamVars
<1> QED
  BY <1>2, <1>3, <1>4, <1>5, <1>6, <1>7, <1>8, <1>9 DEF Next

\* In every reachable state an unsafe request that may still be sent has not been sent,
\* every task that writes a record holds a slot of the persist gate, and a due report
\* comes before its stream's record.
THEOREM CallsInvariant == Spec => []CallInv
  BY InitCallInv, NextCallInv, PTL DEF Spec

\* However the retry runner, the breaker and the deadline interleave, a request whose
\* method is not idempotent, and a stream, goes on the wire at most once.
THEOREM UnsafeCallsAreSentOnce == Spec => []UnsafeCallSentOnce
<1>1. CallInv => UnsafeCallSentOnce
  BY DEF CallInv, RowOK, UnsafeCallSentOnce
<1> QED
  BY <1>1, CallsInvariant, PTL

\* Timeouts, failed writes and the drain return every slot of the persist gate.
THEOREM SlotsComeBack == Spec => []PermitsConserved
<1>1. CallInv => PermitsConserved
  BY DEF CallInv, GateOK, Writing, PermitsConserved
<1> QED
  BY <1>1, CallsInvariant, PTL

\* The event of a stream's refusal that holds the report claim is attempted before
\* anything can become of the stream's record.
THEOREM ReportsComeFirst == Spec => []ReportSurvivesBacklog
<1>1. CallInv => ReportSurvivesBacklog
  BY DEF CallInv, TaskOK, ReportSurvivesBacklog
<1> QED
  BY <1>1, CallsInvariant, PTL


-----------------------------------------------------------------------------
(* The store under the actions *)

LEMMA KeepsTrans ==
    ASSUME NEW a, NEW b, NEW c, NEW S, NEW T, NEW t, Keeps(a, b, S, t), Keeps(b, c, T, t)
    PROVE  Keeps(a, c, S \cup T, t)
  BY DEF Keeps

LEMMA KeepsMore ==
    ASSUME NEW a, NEW b, NEW S, NEW T, NEW t, Keeps(a, b, S, t), S \subseteq T
    PROVE  Keeps(a, b, T, t)
  BY DEF Keeps

BreakerKeys == {TotalKey, FailKey, OpenKey, ReportKey}

\* Slots, bodies and the breaker's keys are apart, and each has a budget.
LEMMA KeysApart ==
    /\ \A k, j, f : /\ Slot(k) # BodySlot(j, f)
                    /\ Slot(k) \notin BreakerKeys /\ BodySlot(j, f) \notin BreakerKeys
                    /\ Slot(k)[1] \in DOMAIN Budget /\ BodySlot(j, f)[1] \in DOMAIN Budget
    /\ \A k, j : Slot(k) = Slot(j) => k = j
    /\ \A k, j, f, g : BodySlot(k, f) = BodySlot(j, g) => k = j /\ f = g
    /\ \A b \in BreakerKeys : b[1] \in DOMAIN Budget
<1>1. \A k, j, f : /\ Slot(k)[1] = "idem" /\ Slot(k)[3] = k
                   /\ BodySlot(j, f)[1] = "idem-body" /\ BodySlot(j, f)[3] = <<j, f>>
  BY DEF Slot, BodySlot
<1>2. \A b \in BreakerKeys : b[1] = "cb"
  BY DEF BreakerKeys, TotalKey, FailKey, OpenKey, ReportKey
<1>3. {"idem", "idem-body", "cb"} \subseteq DOMAIN Budget
  BY LimitsAssumption
<1>4. \A k, j, f : /\ Slot(k) # BodySlot(j, f)
                   /\ Slot(k) \notin BreakerKeys /\ BodySlot(j, f) \notin BreakerKeys
  <2> TAKE k, j, f
  <2>1. "idem" # "idem-body" /\ "idem" # "cb" /\ "idem-body" # "cb"
    OBVIOUS
  <2> QED
    BY <1>1, <1>2, <2>1
<1>5. \A k, j : Slot(k) = Slot(j) => k = j
  BY <1>1
<1>6. ASSUME NEW k, NEW j, NEW f, NEW g, BodySlot(k, f) = BodySlot(j, g) PROVE k = j /\ f = g
  <2>1. <<k, f>> = <<j, g>>
    BY <1>1, <1>6
  <2> QED
    BY <2>1
<1> QED
  BY <1>1, <1>2, <1>3, <1>4, <1>5, <1>6

\* A step that writes no slot and no body.
QuietStep ==
    /\ IsStore(kv') /\ WithinBudget(kv') /\ Keeps(kv, kv', BreakerKeys, now)
    /\ now' \in Nat /\ now' >= now

LEMMA QuietStore ==
    ASSUME now \in Nat, StoreInv, QuietStep PROVE StoreInv'
<1>1. ASSUME NEW x, x \in DOMAIN kv', x \notin BreakerKeys PROVE x \in DOMAIN kv /\ kv'[x] = kv[x]
  BY <1>1 DEF QuietStep, Keeps
<1>2. ASSUME NEW x, x \in DOMAIN kv, x \notin BreakerKeys, kv[x].exp > now PROVE x \in DOMAIN kv'
  BY <1>2 DEF QuietStep, Keeps
<1>3. ASSUME NEW k \in Keys, Slot(k) \in DOMAIN kv'
      PROVE  Slot(k) \in DOMAIN kv /\ kv'[Slot(k)] = kv[Slot(k)]
  BY <1>1, <1>3, KeysApart
<1>4. SlotsSized'
  BY <1>3 DEF StoreInv, SlotsSized
<1>5. ASSUME NEW k \in Keys, Live(kv', Slot(k), now'), kv'[Slot(k)].val.ref
      PROVE  LET b == BodySlot(k, kv'[Slot(k)].val.fp)
             IN  b \in DOMAIN kv' /\ kv'[b].val = "body" /\ kv'[b].exp >= kv'[Slot(k)].exp
  <2> DEFINE s == Slot(k)
             b == BodySlot(k, kv[s].val.fp)
  <2>1. s \in DOMAIN kv /\ kv'[s] = kv[s] /\ kv[s].exp \in Nat /\ kv[s].exp > now
    <3>1. s \in DOMAIN kv /\ kv'[s] = kv[s] /\ kv[s].exp > now'
      BY <1>3, <1>5 DEF Live
    <3>2. kv[s].exp \in Nat
      BY <3>1 DEF StoreInv, IsStore
    <3> QED
      BY <3>1, <3>2 DEF QuietStep
  <2>2. b \in DOMAIN kv /\ kv[b].val = "body" /\ kv[b].exp >= kv[s].exp
    BY <1>5, <2>1 DEF StoreInv, BodiesLast, Live
  <2>3. kv[b].exp \in Nat /\ b \notin BreakerKeys
    BY <2>2, KeysApart DEF StoreInv, IsStore
  <2> HIDE DEF s, b
  <2>4. b \in DOMAIN kv' /\ kv'[b] = kv[b]
    BY <1>1, <1>2, <2>1, <2>2, <2>3
  <2> QED
    BY <2>1, <2>2, <2>4 DEF s, b
<1>6. BodiesLast'
  BY <1>5 DEF BodiesLast
<1> QED
  BY <1>4, <1>6 DEF StoreInv, QuietStep

\* _record of the breaker.
LEMMA RecordIsQuiet ==
    ASSUME now \in Nat, StoreInv, NEW ok, Record(ok)
    PROVE  IsStore(kv') /\ WithinBudget(kv') /\ Keeps(kv, kv', BreakerKeys, now)
<1> DEFINE total == Incr(kv, TotalKey, 1, Window, now)
           fails == Incr(total.kv, FailKey, 1, Window, now)
           open  == SetIfAbsent(fails.kv, OpenKey, "open", 1, Cooldown, now)
<1>1. kv' \in {total.kv, fails.kv, open.kv}
  BY DEF Record
<1>2. Window \in Nat /\ Cooldown \in Nat /\ {TotalKey, FailKey, OpenKey} \subseteq BreakerKeys
  BY LimitsAssumption DEF BreakerKeys
<1>3. IsStore(total.kv) /\ WithinBudget(total.kv) /\ Keeps(kv, total.kv, {TotalKey}, now)
  BY <1>2, KeysApart, IncrEffect DEF StoreInv
<1> HIDE DEF total
<1>4. IsStore(fails.kv) /\ WithinBudget(fails.kv) /\ Keeps(total.kv, fails.kv, {FailKey}, now)
  BY <1>2, <1>3, KeysApart, IncrEffect
<1> HIDE DEF fails
<1>5. /\ IsStore(open.kv) /\ WithinBudget(open.kv) /\ open.won \in BOOLEAN
      /\ open.won => Keeps(fails.kv, open.kv, {OpenKey}, now)
      /\ ~open.won => Keeps(fails.kv, open.kv, {}, now)
  BY <1>2, <1>4, KeysApart, SetIfAbsentEffect
<1> HIDE DEF open
<1>6. Keeps(kv, total.kv, BreakerKeys, now)
  BY <1>2, <1>3, KeepsMore
<1>7. Keeps(kv, fails.kv, BreakerKeys, now)
  BY <1>2, <1>4, <1>6 DEF Keeps
<1>8. Keeps(kv, open.kv, BreakerKeys, now)
  BY <1>2, <1>5, <1>7 DEF Keeps
<1> QED
  BY <1>1, <1>3, <1>4, <1>5, <1>6, <1>7, <1>8


\* The guards and the keys under them are as they were.
GuardsStay == guard' = guard /\ \A r \in Requests : req'[r].key = req[r].key

LEMMA QuietCalls ==
    ASSUME CallInv, StoreInv, NEW r \in Requests,
           \/ InjectFails(r) \/ Attempt(r) \/ Transmit(r)
           \/ PreSendError(r) \/ PostSendError(r) \/ Deadline(r)
           \/ \E s \in Statuses : Respond(r, s)
    PROVE  QuietStep /\ GuardsStay
<1>1. /\ TypeOK /\ now \in Nat /\ IsStore(kv) /\ WithinBudget(kv)
      /\ now' = now /\ guard' = guard
  BY DEF CallInv, TypeOK, StoreInv, InjectFails, Attempt, Transmit, PreSendError, PostSendError,
         Deadline, Respond
<1>2. \A q \in Requests : req'[q].key = req[q].key
  <2>1. CASE InjectFails(r)
    BY <1>1, <2>1 DEF InjectFails, Over, TypeOK, ReqType, RowType
  <2>2. CASE Transmit(r)
    BY <1>1, <2>2 DEF Transmit, Goto, TypeOK, ReqType, RowType
  <2>3. CASE EndsInError(r)
    BY <1>1, <2>3 DEF EndsInError, Over, TypeOK, ReqType, RowType
  <2>4. CASE Attempt(r)
    <3>1. EndsInError(r) \/ req' = [req EXCEPT ![r].pc = "calling", ![r].tries = @ + 1]
      BY <2>4 DEF Attempt
    <3> QED
      BY <1>1, <2>3, <3>1 DEF TypeOK, ReqType, RowType
  <2>5. CASE Goto(r, "admit")
    BY <1>1, <2>5 DEF Goto, TypeOK, ReqType, RowType
  <2>6. CASE PreSendError(r) \/ PostSendError(r) \/ Deadline(r)
    BY <2>3, <2>5, <2>6 DEF PreSendError, PostSendError, Deadline, RetryOrFail
  <2>7. CASE \E s \in Statuses : Respond(r, s)
    <3>1. \/ Goto(r, "admit")
          \/ req' = [req EXCEPT ![r].pc = IF Buffered(r) THEN "persist" ELSE "body", ![r].ok = TRUE]
      BY <2>7 DEF Respond
    <3> QED
      BY <1>1, <2>5, <3>1 DEF TypeOK, ReqType, RowType
  <2> QED
    BY <2>1, <2>2, <2>4, <2>6, <2>7
<1>3. CASE kv' = kv
  BY <1>1, <1>2, <1>3 DEF QuietStep, GuardsStay, Keeps
<1>4. CASE \E ok \in BOOLEAN : Record(ok)
  BY <1>1, <1>2, <1>4, RecordIsQuiet DEF QuietStep, GuardsStay
<1>5. CASE kv' = SetIfAbsent(kv, ReportKey, "open", 1, Cooldown, now).kv
  <2> DEFINE c == SetIfAbsent(kv, ReportKey, "open", 1, Cooldown, now)
  <2>1. Cooldown \in Nat /\ ReportKey \in BreakerKeys
    BY LimitsAssumption DEF BreakerKeys
  <2>2. /\ IsStore(c.kv) /\ WithinBudget(c.kv) /\ c.won \in BOOLEAN
        /\ c.won => Keeps(kv, c.kv, {ReportKey}, now)
        /\ ~c.won => Keeps(kv, c.kv, {}, now)
    BY <1>1, <2>1, KeysApart, SetIfAbsentEffect
  <2> HIDE DEF c
  <2>3. Keeps(kv, c.kv, BreakerKeys, now)
    BY <2>1, <2>2 DEF Keeps
  <2>4. kv' = c.kv
    BY <1>5 DEF c
  <2> QED
    BY <1>1, <1>2, <2>2, <2>3, <2>4 DEF QuietStep, GuardsStay
<1>6. CASE kv' = Touch(kv, OpenKey, now)
  <2>1. IsStore(kv') /\ WithinBudget(kv') /\ Keeps(kv, kv', {}, now)
    BY <1>1, <1>6, TouchDrops
  <2>2. Keeps(kv, kv', BreakerKeys, now)
    BY <2>1, KeepsMore
  <2> QED
    BY <1>1, <1>2, <2>1, <2>2 DEF QuietStep, GuardsStay
<1>7. \/ kv' = kv \/ \E ok \in BOOLEAN : Record(ok)
      \/ kv' = SetIfAbsent(kv, ReportKey, "open", 1, Cooldown, now).kv
      \/ kv' = Touch(kv, OpenKey, now)
  <2>1. CASE InjectFails(r) \/ Transmit(r) \/ Deadline(r)
    BY <2>1 DEF InjectFails, Transmit, Deadline
  <2>2. CASE Attempt(r)
    BY <2>2 DEF Attempt
  <2>3. CASE PreSendError(r) \/ PostSendError(r)
    BY <2>3 DEF PreSendError, PostSendError
  <2>4. CASE \E s \in Statuses : Respond(r, s)
    <3>1. PICK s \in Statuses : Respond(r, s)
      BY <2>4
    <3>2. Record(s # "server_error") /\ (s # "server_error") \in BOOLEAN
      BY <3>1 DEF Respond
    <3> QED
      BY <3>2
  <2> QED
    BY <2>1, <2>2, <2>3, <2>4
<1> QED
  BY <1>3, <1>4, <1>5, <1>6, <1>7

LEMMA QuietOthers ==
    ASSUME CallInv, StoreInv,
           \/ Tick \/ Sweep \/ Drain \/ UNCHANGED vars
           \/ \E r \in Streams : \/ StartStream(r) \/ StreamEnds(r) \/ TaskStart(r) \/ EmitEvent(r)
                                 \/ Acquire(r) \/ AcquireTimeout(r) \/ Write(r) \/ TaskTimeout(r)
    PROVE  QuietStep /\ GuardsStay
<1>1. TypeOK /\ now \in Nat /\ IsStore(kv) /\ WithinBudget(kv)
  BY DEF CallInv, TypeOK, StoreInv
<1>2. ASSUME kv' = kv, now' = now \/ now' = now + 1 PROVE QuietStep
  BY <1>1, <1>2 DEF QuietStep, Keeps
<1>3. CASE Sweep
  <2>1. kv' = Drop(kv, Expired(kv, now)) /\ UNCHANGED <<now, req, guard>>
    BY <1>3 DEF Sweep, reqVars
  <2>2. IsStore(kv') /\ WithinBudget(kv')
    BY <1>1, <2>1, DropKeepsBudget
  <2>3. Keeps(kv, kv', BreakerKeys, now)
    <3>1. \A k \in DOMAIN kv : kv[k].exp \in Nat
      BY <1>1 DEF IsStore
    <3> QED
      BY <1>1, <2>1, <3>1 DEF Keeps, Drop, Restrict, Expired
  <2> QED
    BY <1>1, <2>1, <2>2, <2>3 DEF QuietStep, GuardsStay
<1>4. CASE Tick \/ Drain \/ UNCHANGED vars
  <2>1. kv' = kv /\ (now' = now \/ now' = now + 1) /\ UNCHANGED <<req, guard>>
    BY <1>4 DEF Tick, Drain, vars, reqVars
  <2> QED
    BY <1>2, <2>1 DEF GuardsStay
<1>5. ASSUME NEW r \in Streams, StartStream(r) \/ StreamEnds(r) PROVE QuietStep /\ GuardsStay
  <2>1. kv' = kv /\ now' = now /\ guard' = guard
    BY <1>5 DEF StartStream, StreamEnds
  <2>2. \A q \in Requests : req'[q].key = req[q].key
    <3>1. r \in Requests /\ "admit" \in Places /\ "answered" \in Places
      BY DEF Requests, Places
    <3>2. Goto(r, "admit") \/ Over(r, "answered")
      BY <1>5 DEF StartStream, StreamEnds
    <3>3. req'[r].key = req[r].key /\ \A q \in Requests : q # r => req'[q] = req[q]
      BY <1>1, <3>1, <3>2, GotoRow, OverRow
    <3> QED
      BY <3>3
  <2> QED
    BY <1>2, <2>1, <2>2 DEF GuardsStay
<1>6. ASSUME NEW r \in Streams,
             \/ TaskStart(r) \/ EmitEvent(r) \/ Acquire(r)
             \/ AcquireTimeout(r) \/ Write(r) \/ TaskTimeout(r)
      PROVE  QuietStep /\ GuardsStay
  <2>1. kv' = kv /\ now' = now /\ UNCHANGED <<req, guard>>
    BY <1>6 DEF TaskStart, EmitEvent, Acquire, AcquireTimeout, Write, TaskTimeout, reqVars
  <2> QED
    BY <1>2, <2>1 DEF GuardsStay
<1> QED
  BY <1>3, <1>4, <1>5, <1>6

\* A claim on a key's slot: the winner finds the slot free, the others change nothing.
LEMMA ClaimStores ==
    ASSUME now \in Nat, StoreInv, NEW k, NEW f, NEW by,
           NEW c, c = SetIfAbsent(kv, Slot(k), Claim(f, by), ClaimSize, PendingTTL, now),
           kv' = c.kv, now' = now
    PROVE  /\ StoreInv'
           /\ c.won \in BOOLEAN
           /\ ~c.won => Keeps(kv, kv', {}, now)
           /\ c.won => /\ ~Live(kv, Slot(k), now) /\ Keeps(kv, kv', {Slot(k)}, now)
                       /\ Slot(k) \in DOMAIN kv' /\ kv'[Slot(k)].exp = now + PendingTTL
<1> DEFINE e == [val |-> Claim(f, by), size |-> ClaimSize, exp |-> now + PendingTTL]
<1>1. PendingTTL \in Nat /\ ClaimSize \in Nat
  BY LimitsAssumption
<1>2. /\ IsStore(kv') /\ WithinBudget(kv') /\ c.won \in BOOLEAN
      /\ c.won => /\ ~Live(kv, Slot(k), now) /\ Slot(k) \in DOMAIN kv' /\ kv'[Slot(k)] = e
                  /\ Keeps(kv, kv', {Slot(k)}, now)
      /\ ~c.won => Keeps(kv, kv', {}, now)
  BY <1>1, KeysApart, SetIfAbsentEffect DEF StoreInv
<1>3. e.val.ref = FALSE /\ e.size = ClaimSize /\ e.exp = now + PendingTTL
  BY DEF Claim
<1> HIDE DEF e
<1>4. CASE ~c.won
  <2>1. QuietStep
    BY <1>2, <1>4 DEF QuietStep, Keeps
  <2> QED
    BY <1>2, <1>4, <2>1, QuietStore
<1>5. CASE c.won
  <2>1. /\ \A x \in DOMAIN kv' : x # Slot(k) => x \in DOMAIN kv /\ kv'[x] = kv[x]
        /\ \A x \in DOMAIN kv : x # Slot(k) /\ kv[x].exp > now => x \in DOMAIN kv'
    BY <1>2, <1>5 DEF Keeps
  <2>2. SlotsSized'
    BY <1>2, <1>3, <1>5, <2>1 DEF StoreInv, SlotsSized
  <2>3. ASSUME NEW j \in Keys, Live(kv', Slot(j), now), kv'[Slot(j)].val.ref
        PROVE  LET b == BodySlot(j, kv'[Slot(j)].val.fp)
               IN  b \in DOMAIN kv' /\ kv'[b].val = "body" /\ kv'[b].exp >= kv'[Slot(j)].exp
    <3> DEFINE s == Slot(j)
               b == BodySlot(j, kv[s].val.fp)
    <3>1. s # Slot(k)
      BY <1>2, <1>3, <1>5, <2>3
    <3>2. s \in DOMAIN kv /\ kv'[s] = kv[s] /\ kv[s].exp > now
      BY <2>1, <2>3, <3>1 DEF Live
    <3>3. b \in DOMAIN kv /\ kv[b].val = "body" /\ kv[b].exp >= kv[s].exp /\ b # Slot(k)
      BY <2>3, <3>2, KeysApart DEF StoreInv, BodiesLast, Live
    <3>4. kv[b].exp \in Nat /\ kv[s].exp \in Nat
      BY <3>2, <3>3 DEF StoreInv, IsStore
    <3> HIDE DEF s, b
    <3>5. b \in DOMAIN kv' /\ kv'[b] = kv[b]
      BY <2>1, <3>2, <3>3, <3>4
    <3> QED
      BY <3>2, <3>3, <3>5 DEF s, b
  <2>4. BodiesLast'
    BY <2>3 DEF BodiesLast
  <2> QED
    BY <1>2, <1>3, <1>5, <2>2, <2>4 DEF StoreInv
<1> QED
  BY <1>4, <1>5


-----------------------------------------------------------------------------
(* complete *)

LEMMA BodyStores ==
    ASSUME now \in Nat, StoreInv, NEW k, NEW f, NEW size \in Nat
    PROVE  LET body == StoreBody(k, f, size)
           IN  /\ IsStore(body.kv) /\ WithinBudget(body.kv) /\ body.ok \in BOOLEAN
               /\ Keeps(kv, body.kv, {BodySlot(k, f)}, now)
               /\ body.ok => /\ BodySlot(k, f) \in DOMAIN body.kv
                             /\ body.kv[BodySlot(k, f)].val = "body"
                             /\ body.kv[BodySlot(k, f)].exp = now + DoneTTL + PendingTTL
<1> DEFINE b == BodySlot(k, f)
           s == Store(kv, b, "body", size, now + DoneTTL + PendingTTL, now)
<1>1. CASE size = 0 \/ size > MaxResponseBytes
  BY <1>1 DEF StoreBody, StoreInv, Keeps
<1>2. CASE ~(size = 0 \/ size > MaxResponseBytes)
  <2>1. StoreBody(k, f, size) = s
    BY <1>2 DEF StoreBody
  <2>2. now + DoneTTL + PendingTTL \in Nat /\ b[1] \in DOMAIN Budget
    BY LimitsAssumption, KeysApart
  <2>3. /\ IsStore(s.kv) /\ WithinBudget(s.kv) /\ s.ok \in BOOLEAN
        /\ s.ok => /\ b \in DOMAIN s.kv
                   /\ s.kv[b] = [val |-> "body", size |-> size, exp |-> now + DoneTTL + PendingTTL]
                   /\ Keeps(kv, s.kv, {b}, now)
        /\ ~s.ok => Keeps(kv, s.kv, {}, now)
    BY <2>2, StoreEffect DEF StoreInv
  <2> HIDE DEF s, b
  <2>4. Keeps(kv, s.kv, {b}, now)
    BY <2>3 DEF Keeps
  <2> QED
    BY <2>1, <2>3, <2>4 DEF b
<1> QED
  BY <1>1, <1>2

\* complete leaves the slot a record or a tombstone of its own, for the whole window,
\* unless the slot was already free; a record that refers to a body has it.
LEMMA PromoteStores ==
    ASSUME now \in Nat, StoreInv, NEW k \in Keys, NEW f, NEW size \in Nat, Promote(k, f, size)
    PROVE  LET s == Slot(k)
               b == BodySlot(k, f)
           IN  /\ IsStore(kv') /\ WithinBudget(kv') /\ Keeps(kv, kv', {s, b}, now)
               /\ \/ /\ s \in DOMAIN kv' /\ kv'[s].exp = now + DoneTTL
                     /\ kv'[s].val.fp = f /\ kv'[s].val.ref \in BOOLEAN
                     /\ kv'[s].size = RecordSize \/ (kv'[s].size = TombstoneSize /\ ~kv'[s].val.ref)
                     /\ kv'[s].val.ref /\ now + DoneTTL > now =>
                            /\ b \in DOMAIN kv' /\ kv'[b].val = "body"
                            /\ kv'[b].exp >= now + DoneTTL
                  \/ ~Live(kv, s, now) /\ Keeps(kv, kv', {b}, now)
<1> DEFINE s      == Slot(k)
           b      == BodySlot(k, f)
           body   == StoreBody(k, f, size)
           record == Store(body.kv, s, Done(f, body.ok), RecordSize, now + DoneTTL, now)
           freed  == IF body.ok THEN ReleaseBody(record.kv, k, f) ELSE record.kv
           tomb   == Store(freed, s, Done(f, FALSE), TombstoneSize, now + DoneTTL, now)
<1>1. kv' = IF record.ok THEN record.kv ELSE tomb.kv
  BY DEF Promote
<1>2. /\ now + DoneTTL \in Nat /\ now + 1 \in Nat /\ RecordSize \in Nat /\ TombstoneSize \in Nat
      /\ ClaimSize \in Nat /\ PendingTTL \in Nat /\ DoneTTL \in Nat
      /\ s[1] \in DOMAIN Budget /\ b[1] \in DOMAIN Budget /\ s # b
  BY LimitsAssumption, KeysApart
<1>3. /\ IsStore(body.kv) /\ WithinBudget(body.kv) /\ body.ok \in BOOLEAN
      /\ Keeps(kv, body.kv, {b}, now)
      /\ body.ok => /\ b \in DOMAIN body.kv /\ body.kv[b].val = "body"
                    /\ body.kv[b].exp = now + DoneTTL + PendingTTL
  BY BodyStores
<1> HIDE DEF body, s, b
<1>4. /\ IsStore(record.kv) /\ WithinBudget(record.kv) /\ record.ok \in BOOLEAN
      /\ record.ok => /\ s \in DOMAIN record.kv
                      /\ record.kv[s] = [val |-> Done(f, body.ok), size |-> RecordSize, exp |-> now + DoneTTL]
                      /\ Keeps(body.kv, record.kv, {s}, now)
      /\ ~record.ok => Keeps(body.kv, record.kv, {}, now)
  BY <1>2, <1>3, StoreEffect
<1>5. s \in DOMAIN body.kv /\ body.kv[s].size = RecordSize => record.ok
  BY <1>2, <1>3, OverwriteIsStored
<1> HIDE DEF record
<1>6. CASE record.ok
  <2>1. kv' = record.kv /\ kv'[s].exp = now + DoneTTL /\ kv'[s].size = RecordSize
        /\ kv'[s].val = Done(f, body.ok)
    BY <1>1, <1>4, <1>6
  <2>2. kv'[s].val.fp = f /\ kv'[s].val.ref = body.ok
    BY <2>1 DEF Done
  <2>3. Keeps(kv, kv', {s, b}, now)
    BY <1>3, <1>4, <1>6, <2>1 DEF Keeps
  <2>4. ASSUME body.ok, now + DoneTTL > now
        PROVE  b \in DOMAIN kv' /\ kv'[b].val = "body" /\ kv'[b].exp >= now + DoneTTL
    <3>1. b \in DOMAIN body.kv /\ body.kv[b].val = "body" /\ body.kv[b].exp >= now + DoneTTL
          /\ body.kv[b].exp > now
      BY <1>2, <1>3, <2>4
    <3>2. b \in DOMAIN kv' /\ kv'[b] = body.kv[b]
      BY <1>2, <1>4, <1>6, <2>1, <3>1 DEF Keeps
    <3> QED
      BY <3>1, <3>2
  <2>5. kv'[s].val.ref \in BOOLEAN /\ s \in DOMAIN kv' /\ IsStore(kv') /\ WithinBudget(kv')
    BY <1>3, <1>4, <1>6, <2>1, <2>2
  <2> QED
    BY <2>1, <2>2, <2>3, <2>4, <2>5 DEF s, b
<1>7. CASE ~record.ok
  <2>1. IsStore(freed) /\ WithinBudget(freed) /\ Keeps(record.kv, freed, {b}, now)
    <3>1. CASE body.ok
      <4> DEFINE rel == Store(record.kv, b, "released", 1, now + 1, now)
      <4>1. freed = rel.kv
        BY <3>1 DEF ReleaseBody, b
      <4>2. /\ IsStore(rel.kv) /\ WithinBudget(rel.kv) /\ rel.ok \in BOOLEAN
            /\ rel.ok => Keeps(record.kv, rel.kv, {b}, now)
            /\ ~rel.ok => Keeps(record.kv, rel.kv, {}, now)
        BY <1>2, <1>4, StoreEffect
      <4> HIDE DEF rel
      <4>3. Keeps(record.kv, rel.kv, {b}, now)
        BY <4>2 DEF Keeps
      <4> QED
        BY <4>1, <4>2, <4>3
    <3>2. CASE ~body.ok
      BY <1>4, <3>2 DEF Keeps
    <3> QED
      BY <3>1, <3>2
  <2> HIDE DEF freed
  <2>2. Keeps(kv, freed, {b}, now)
    BY <1>3, <1>4, <1>7, <2>1 DEF Keeps
  <2>3. /\ IsStore(tomb.kv) /\ WithinBudget(tomb.kv) /\ tomb.ok \in BOOLEAN
        /\ tomb.ok => /\ s \in DOMAIN tomb.kv
                      /\ tomb.kv[s] = [val |-> Done(f, FALSE), size |-> TombstoneSize, exp |-> now + DoneTTL]
                      /\ Keeps(freed, tomb.kv, {s}, now)
        /\ ~tomb.ok => Keeps(freed, tomb.kv, {}, now)
    BY <1>2, <2>1, StoreEffect
  <2>4. s \in DOMAIN freed /\ freed[s].size \in {ClaimSize, TombstoneSize} => tomb.ok
    <3>1. TombstoneSize <= ClaimSize /\ TombstoneSize <= TombstoneSize
      BY <1>2, ClaimCoversTombstone
    <3> QED
      BY <1>2, <2>1, <3>1, OverwriteIsStored
  <2> HIDE DEF tomb
  <2>5. kv' = tomb.kv
    BY <1>1, <1>7
  <2>6. CASE tomb.ok
    <3> DEFINE e == [val |-> Done(f, FALSE), size |-> TombstoneSize, exp |-> now + DoneTTL]
    <3>1. e.val = Done(f, FALSE) /\ e.size = TombstoneSize /\ e.exp = now + DoneTTL
      OBVIOUS
    <3> HIDE DEF e
    <3>2. s \in DOMAIN tomb.kv /\ tomb.kv[s] = e
      BY <2>3, <2>6 DEF e
    <3>3. /\ kv'[s].val = Done(f, FALSE) /\ kv'[s].size = TombstoneSize
          /\ kv'[s].exp = now + DoneTTL /\ s \in DOMAIN kv'
      BY <2>5, <3>1, <3>2
    <3>4. kv'[s].val.fp = f /\ kv'[s].val.ref = FALSE
      BY <3>3 DEF Done
    <3>5. Keeps(kv, kv', {s, b}, now)
      BY <2>2, <2>3, <2>5, <2>6 DEF Keeps
    <3> QED
      BY <2>3, <2>5, <3>3, <3>4, <3>5 DEF s, b
  <2>7. CASE ~tomb.ok
    <3>1. Keeps(kv, kv', {b}, now)
      BY <2>2, <2>3, <2>5, <2>7 DEF Keeps
    <3>2. Keeps(kv, kv', {s, b}, now)
      BY <3>1 DEF Keeps
    <3>3. ASSUME Live(kv, s, now) PROVE FALSE
      <4>1. s \in DOMAIN kv /\ kv[s].exp > now
        BY <3>3 DEF Live
      <4>2. s \in DOMAIN body.kv /\ body.kv[s] = kv[s]
        BY <1>2, <1>3, <4>1 DEF Keeps
      <4>3. s \in DOMAIN freed /\ freed[s] = kv[s]
        BY <1>2, <2>2, <4>1 DEF Keeps
      <4>4. kv[s].size \in {RecordSize, ClaimSize, TombstoneSize}
        BY <4>1 DEF StoreInv, SlotsSized, s
      <4> QED
        BY <1>5, <1>7, <2>4, <2>7, <4>2, <4>3, <4>4
    <3> QED
      BY <2>3, <2>5, <3>1, <3>2, <3>3 DEF s, b
  <2> QED
    BY <2>6, <2>7
<1> QED
  BY <1>4, <1>6, <1>7


\* The slot of a completed key is its own again; every other key's slot and body stay.
LEMMA PromoteKeepsStore ==
    ASSUME now \in Nat, StoreInv, NEW k \in Keys, NEW f, NEW size \in Nat,
           Promote(k, f, size), now' = now
    PROVE  StoreInv'
<1> DEFINE s == Slot(k)
           b == BodySlot(k, f)
           written == /\ s \in DOMAIN kv' /\ kv'[s].exp = now + DoneTTL
                      /\ kv'[s].val.fp = f /\ kv'[s].val.ref \in BOOLEAN
                      /\ kv'[s].size = RecordSize \/ (kv'[s].size = TombstoneSize /\ ~kv'[s].val.ref)
                      /\ kv'[s].val.ref /\ now + DoneTTL > now =>
                             /\ b \in DOMAIN kv' /\ kv'[b].val = "body"
                             /\ kv'[b].exp >= now + DoneTTL
           free == ~Live(kv, s, now) /\ Keeps(kv, kv', {b}, now)
<1>1. IsStore(kv') /\ WithinBudget(kv') /\ Keeps(kv, kv', {s, b}, now) /\ (written \/ free)
  BY PromoteStores
<1>2. /\ \A x \in DOMAIN kv' : x \notin {s, b} => x \in DOMAIN kv /\ kv'[x] = kv[x]
      /\ \A x \in DOMAIN kv : x \notin {s, b} /\ kv[x].exp > now => x \in DOMAIN kv'
  BY <1>1 DEF Keeps
<1>3. \A j \in Keys : Slot(j) # b /\ (j # k => Slot(j) # s /\ \A g : BodySlot(j, g) \notin {s, b})
  BY KeysApart
<1> HIDE DEF s, b
<1>4. free => /\ s \in DOMAIN kv' => s \in DOMAIN kv /\ kv'[s] = kv[s]
              /\ ~Live(kv', s, now)
  BY <1>3 DEF Keeps, Live, s
<1>5. ASSUME NEW j \in Keys, Slot(j) \in DOMAIN kv'
      PROVE  LET e == kv'[Slot(j)]
             IN /\ e.val.ref \in BOOLEAN
                /\ e.size = RecordSize \/ (~e.val.ref /\ e.size \in {ClaimSize, TombstoneSize})
  <2>1. CASE j = k /\ written
    BY <2>1 DEF s
  <2>2. CASE j # k \/ free
    <3>1. Slot(j) \in DOMAIN kv /\ kv'[Slot(j)] = kv[Slot(j)]
      BY <1>2, <1>3, <1>4, <1>5, <2>2 DEF s
    <3> QED
      BY <3>1 DEF StoreInv, SlotsSized
  <2> QED
    BY <1>1, <2>1, <2>2
<1>6. ASSUME NEW j \in Keys, Live(kv', Slot(j), now), kv'[Slot(j)].val.ref
      PROVE  LET c == BodySlot(j, kv'[Slot(j)].val.fp)
             IN  c \in DOMAIN kv' /\ kv'[c].val = "body" /\ kv'[c].exp >= kv'[Slot(j)].exp
  <2>1. CASE j = k
    <3>1. written /\ Slot(j) = s
      BY <1>1, <1>4, <1>6, <2>1 DEF s
    <3>2. kv'[s].val.ref /\ now + DoneTTL > now
      BY <1>6, <3>1 DEF Live
    <3>3. BodySlot(j, kv'[s].val.fp) = b
      BY <2>1, <3>1 DEF b
    <3> QED
      BY <3>1, <3>2, <3>3
  <2>2. CASE j # k
    <3> DEFINE t == Slot(j)
               c == BodySlot(j, kv[t].val.fp)
    <3>1. t \in DOMAIN kv /\ kv'[t] = kv[t] /\ kv[t].exp > now
      BY <1>2, <1>3, <1>6, <2>2 DEF Live
    <3>2. c \in DOMAIN kv /\ kv[c].val = "body" /\ kv[c].exp >= kv[t].exp
      BY <1>6, <3>1 DEF StoreInv, BodiesLast, Live
    <3>3. kv[c].exp \in Nat /\ kv[t].exp \in Nat /\ c \notin {s, b}
      BY <1>3, <2>2, <3>1, <3>2 DEF StoreInv, IsStore
    <3> HIDE DEF t, c
    <3>4. c \in DOMAIN kv' /\ kv'[c] = kv[c]
      BY <1>2, <3>1, <3>2, <3>3
    <3> QED
      BY <3>1, <3>2, <3>4 DEF t, c
  <2> QED
    BY <2>1, <2>2
<1>7. SlotsSized'
  BY <1>5 DEF SlotsSized
<1>8. BodiesLast'
  BY <1>6 DEF BodiesLast
<1> QED
  BY <1>1, <1>7, <1>8 DEF StoreInv

\* Persist completes the key or leaves the store alone.
LEMMA PersistStores ==
    ASSUME CallInv, StoreInv, NEW r \in Keyed, Persist(r)
    PROVE  /\ now' = now /\ req[r].key \in Keys
           /\ \A q \in Requests : req'[q].key = req[q].key
           /\ \/ kv' = kv /\ guard' = guard
              \/ /\ \E size \in Nat : Promote(req[r].key, req[r].fp, size)
                 /\ guard' = IF HoldsClaim(r) THEN [guard EXCEPT ![r] = now + DoneTTL] ELSE guard
<1>1. r \in Requests /\ TypeOK /\ RowOK(r) /\ {"answered", "failed"} \subseteq Places
  BY DEF Requests, CallInv, Places
<1>2. req[r].pc = "persist" /\ now' = now /\ (Over(r, "answered") \/ Over(r, "failed"))
  BY DEF Persist, Complete
<1>3. req[r].key \in Keys
  BY <1>1, <1>2 DEF RowOK
<1>4. \A q \in Requests : req'[q].key = req[q].key
  <2>1. req'[r].key = req[r].key /\ \A q \in Requests : q # r => req'[q] = req[q]
    BY <1>1, <1>2, OverRow
  <2> QED
    BY <2>1
<1>5. \A size \in BodySizes : size \in Nat
  BY LimitsAssumption
<1>6. (kv' = kv /\ guard' = guard) \/ Complete(r)
  BY DEF Persist
<1>7. CASE Complete(r)
  <2>1. /\ \E size \in BodySizes : Promote(req[r].key, req[r].fp, size)
        /\ guard' = IF HoldsClaim(r) THEN [guard EXCEPT ![r] = now + DoneTTL] ELSE guard
    BY <1>7 DEF Complete
  <2> QED
    BY <1>2, <1>3, <1>4, <1>5, <2>1
<1> QED
  BY <1>2, <1>3, <1>4, <1>6, <1>7

LEMMA NextStoreInv == CallInv /\ StoreInv /\ [Next]_vars => StoreInv'
<1> SUFFICES ASSUME CallInv, StoreInv, [Next]_vars PROVE StoreInv'
  OBVIOUS
<1>1. now \in Nat
  BY DEF CallInv, TypeOK
<1>2. CASE \/ Tick \/ Sweep \/ Drain \/ UNCHANGED vars
           \/ \E r \in Streams : \/ StartStream(r) \/ StreamEnds(r) \/ TaskStart(r) \/ EmitEvent(r)
                                 \/ Acquire(r) \/ AcquireTimeout(r) \/ Write(r) \/ TaskTimeout(r)
  BY <1>1, <1>2, QuietOthers, QuietStore
<1>3. ASSUME NEW r \in Requests,
             \/ InjectFails(r) \/ Attempt(r) \/ Transmit(r)
             \/ PreSendError(r) \/ PostSendError(r) \/ Deadline(r)
             \/ \E s \in Statuses : Respond(r, s)
      PROVE  StoreInv'
  BY <1>1, <1>3, QuietCalls, QuietStore
<1>4. ASSUME NEW k \in OtherKeys, OtherClaim(k) PROVE StoreInv'
  <2>1. /\ kv' = SetIfAbsent(kv, Slot(k), Claim(NoFp, "other"), ClaimSize, PendingTTL, now).kv
        /\ now' = now
    BY <1>4 DEF OtherClaim
  <2> QED
    BY <1>1, <2>1, ClaimStores
<1>5. ASSUME NEW r \in Keyed, NEW k \in Keys, NEW f \in Prints, Begin(r, k, f) PROVE StoreInv'
  <2>1. /\ kv' = SetIfAbsent(kv, Slot(k), Claim(f, r), ClaimSize, PendingTTL, now).kv
        /\ now' = now
    BY <1>5 DEF Begin
  <2> QED
    BY <1>1, <2>1, ClaimStores
<1>6. ASSUME NEW r \in Keyed, Persist(r) PROVE StoreInv'
  <2>1. CASE kv' = kv
    <3>1. now' = now
      BY <1>6 DEF Persist
    <3>2. QuietStep
      BY <1>1, <2>1, <3>1 DEF QuietStep, Keeps, StoreInv
    <3> QED
      BY <1>1, <3>2, QuietStore
  <2>2. CASE \E size \in Nat : Promote(req[r].key, req[r].fp, size)
    BY <1>1, <1>6, <2>2, PersistStores, PromoteKeepsStore
  <2> QED
    BY <1>6, <2>1, <2>2, PersistStores
<1> QED
  BY <1>2, <1>3, <1>4, <1>5, <1>6 DEF Next

LEMMA InitStoreInv == Init => StoreInv
<1> SUFFICES ASSUME Init PROVE StoreInv
  OBVIOUS
<1>1. DOMAIN kv = {}
  BY DEF Init
<1>2. IsStore(kv)
  BY <1>1, FS_EmptySet DEF IsStore
<1> QED
  BY <1>1, <1>2 DEF StoreInv, WithinBudget, SlotsSized, BodiesLast, Live

\* In every reachable state the store is within its budgets, an idempotency slot holds a
\* claim, a tombstone or a record, and a body lasts as long as the record that refers to it.
THEOREM StoreInvariant == Spec => []StoreInv
<1>1. Init => CallInv /\ StoreInv
  BY InitCallInv, InitStoreInv
<1>2. CallInv /\ StoreInv /\ [Next]_vars => (CallInv /\ StoreInv)'
  BY NextCallInv, NextStoreInv
<1> QED
  BY <1>1, <1>2, PTL DEF Spec

\* The budgets of the store are never exceeded, by any scope, whatever is written,
\* overwritten, reclaimed or swept.
THEOREM BudgetsHold == Spec => []WithinBudget(kv)
<1>1. StoreInv => WithinBudget(kv)
  BY DEF StoreInv
<1> QED
  BY <1>1, StoreInvariant, PTL

\* A stored response that refers to a body has it: whatever the budgets refused,
\* released or reclaimed, and whichever request wrote the slot last.
THEOREM ReplaysFindTheirBody == Spec => []ReplayFindsBody
<1>1. ASSUME StoreInv, NEW k \in Keys, Live(kv, Slot(k), now), kv[Slot(k)].val.ref, now \in Nat
      PROVE  LET b == BodySlot(k, kv[Slot(k)].val.fp)
             IN  Live(kv, b, now) /\ kv[b].val = "body"
  <2> DEFINE s == Slot(k)
             b == BodySlot(k, kv[s].val.fp)
  <2>1. b \in DOMAIN kv /\ kv[b].val = "body" /\ kv[b].exp >= kv[s].exp
    BY <1>1 DEF StoreInv, BodiesLast
  <2>2. kv[b].exp \in Nat /\ kv[s].exp \in Nat /\ kv[s].exp > now
    BY <1>1, <2>1 DEF StoreInv, IsStore, Live
  <2> HIDE DEF s, b
  <2>3. Live(kv, b, now)
    BY <1>1, <2>1, <2>2 DEF Live
  <2> QED
    BY <2>1, <2>3 DEF s, b
<1>2. CallInv /\ StoreInv => ReplayFindsBody
  BY <1>1 DEF ReplayFindsBody, CallInv, TypeOK
<1> QED
  BY <1>2, CallsInvariant, StoreInvariant, PTL


-----------------------------------------------------------------------------
(* Guards: a key does not run again while an earlier run of it is protected *)

LEMMA QuietGuards ==
    ASSUME CallInv, StoreInv, GuardInv, QuietStep, GuardsStay PROVE GuardInv'
<1>1. /\ now \in Nat /\ now' \in Nat /\ now' >= now /\ guard \in [Requests -> Nat] /\ guard' = guard
      /\ \A r \in Requests : req'[r].key = req[r].key
  BY DEF CallInv, TypeOK, QuietStep, GuardsStay
<1>2. ASSUME NEW r \in Requests, guard[r] > now'
      PROVE  /\ req[r].key \in Keys /\ Live(kv', Slot(req[r].key), now')
             /\ kv'[Slot(req[r].key)].exp >= guard[r]
  <2> DEFINE s == Slot(req[r].key)
  <2>1. guard[r] \in Nat /\ guard[r] > now
    BY <1>1, <1>2
  <2>2. req[r].key \in Keys /\ s \in DOMAIN kv /\ kv[s].exp > now /\ kv[s].exp >= guard[r]
    BY <2>1 DEF GuardInv, GuardsHold, Live
  <2>3. kv[s].exp \in Nat /\ s \notin BreakerKeys
    BY <2>2, KeysApart DEF StoreInv, IsStore
  <2> HIDE DEF s
  <2>4. s \in DOMAIN kv' /\ kv'[s] = kv[s]
    BY <2>2, <2>3 DEF QuietStep, Keeps
  <2>5. kv[s].exp > now'
    BY <1>1, <1>2, <2>1, <2>2, <2>3
  <2> QED
    BY <2>2, <2>4, <2>5 DEF Live, s
<1>3. GuardsHold'
  BY <1>1, <1>2 DEF GuardsHold
<1>4. GuardsBounded'
  <2>1. DoneTTL \in Nat
    BY LimitsAssumption
  <2> QED
    BY <1>1, <2>1 DEF GuardInv, GuardsBounded
<1> QED
  BY <1>3, <1>4 DEF GuardInv

\* A slot that a guard holds stays through a claim, won or not.
LEMMA ClaimGuards ==
    ASSUME CallInv, StoreInv, GuardInv, NEW k,
           \/ Keeps(kv, kv', {}, now)
           \/ ~Live(kv, Slot(k), now) /\ Keeps(kv, kv', {Slot(k)}, now),
           NEW q \in Requests, guard[q] > now
    PROVE  /\ req[q].key \in Keys /\ Live(kv', Slot(req[q].key), now)
           /\ kv'[Slot(req[q].key)].exp >= guard[q]
<1> DEFINE s == Slot(req[q].key)
<1>1. req[q].key \in Keys /\ s \in DOMAIN kv /\ kv[s].exp > now /\ kv[s].exp >= guard[q] /\ Live(kv, s, now)
  BY DEF GuardInv, GuardsHold, Live
<1> HIDE DEF s
<1>2. s \in DOMAIN kv' /\ kv'[s] = kv[s]
  <2>1. CASE Keeps(kv, kv', {}, now)
    BY <1>1, <2>1 DEF Keeps
  <2>2. CASE ~Live(kv, Slot(k), now) /\ Keeps(kv, kv', {Slot(k)}, now)
    <3>1. s # Slot(k)
      BY <1>1, <2>2
    <3> QED
      BY <1>1, <2>2, <3>1 DEF Keeps
  <2> QED
    BY <2>1, <2>2
<1> QED
  BY <1>1, <1>2 DEF Live, s

LEMMA BeginGuards ==
    ASSUME PendingTTL <= DoneTTL, CallInv, StoreInv, GuardInv,
           NEW r \in Keyed, NEW k \in Keys, NEW f \in Prints, Begin(r, k, f)
    PROVE  /\ GuardInv'
           /\ \A q \in Requests : q # r => req'[q] = req[q]
           /\ req'[r].pc = "admit" =>
                \A q \in Requests : req[q].key = req'[r].key => now >= guard[q]
<1> DEFINE c == SetIfAbsent(kv, Slot(k), Claim(f, r), ClaimSize, PendingTTL, now)
<1>1. /\ r \in Requests /\ TypeOK /\ RowOK(r) /\ now \in Nat /\ guard \in [Requests -> Nat]
      /\ PendingTTL \in Nat /\ DoneTTL \in Nat
  BY LimitsAssumption DEF Requests, CallInv, TypeOK
<1>2. /\ req[r].pc = "new" /\ kv' = c.kv /\ now' = now
      /\ guard' = IF c.won THEN [guard EXCEPT ![r] = now + PendingTTL] ELSE guard
  BY DEF Begin
<1>3. guard[r] = 0
  BY <1>1, <1>2 DEF RowOK
<1>4. PICK pc \in {"admit", "refused", "replayed"} :
        /\ req' = [req EXCEPT ![r].key = k, ![r].fp = f, ![r].pc = pc]
        /\ pc = "admit" => c.won
  BY DEF Begin, Verdict
<1>5. /\ \A q \in Requests : q # r => req'[q] = req[q]
      /\ req'[r].key = k /\ req'[r].pc = pc
  <2>1. pc \in Places
    BY DEF Places
  <2>2. \A q \in Requests : q # r => req'[q] = req[q]
    BY <1>1, <1>4 DEF TypeOK, ReqType, RowType
  <2>3. req'[r].key = k
    BY <1>1, <1>4 DEF TypeOK, ReqType, RowType
  <2>4. req'[r].pc = pc
    BY <1>1, <1>4, <2>1 DEF TypeOK, ReqType, RowType
  <2> QED
    BY <2>2, <2>3, <2>4
<1>6. /\ c.won \in BOOLEAN
      /\ ~c.won => Keeps(kv, kv', {}, now)
      /\ c.won => /\ ~Live(kv, Slot(k), now) /\ Keeps(kv, kv', {Slot(k)}, now)
                  /\ Slot(k) \in DOMAIN kv' /\ kv'[Slot(k)].exp = now + PendingTTL
  BY <1>1, <1>2, ClaimStores
<1> HIDE DEF c
<1>7. ASSUME NEW q \in Requests, guard[q] > now
      PROVE  /\ req[q].key \in Keys /\ Live(kv', Slot(req[q].key), now)
             /\ kv'[Slot(req[q].key)].exp >= guard[q]
  <2>1. \/ Keeps(kv, kv', {}, now)
        \/ ~Live(kv, Slot(k), now) /\ Keeps(kv, kv', {Slot(k)}, now)
    BY <1>6
  <2> QED
    BY <1>7, <2>1, ClaimGuards
<1>8. ASSUME NEW q \in Requests, guard'[q] > now
      PROVE  /\ req'[q].key \in Keys /\ Live(kv', Slot(req'[q].key), now)
             /\ kv'[Slot(req'[q].key)].exp >= guard'[q]
  <2>1. CASE q # r
    <3>1. guard'[q] = guard[q] /\ req'[q] = req[q]
      BY <1>1, <1>2, <1>5, <2>1
    <3> QED
      BY <1>7, <1>8, <3>1
  <2>2. CASE q = r
    <3>1. c.won /\ guard'[r] = now + PendingTTL
      BY <1>1, <1>2, <1>3, <1>8, <2>2
    <3>2. kv'[Slot(k)].exp = guard'[r] /\ Slot(k) \in DOMAIN kv'
      BY <1>6, <3>1
    <3> QED
      BY <1>1, <1>5, <1>8, <2>2, <3>1, <3>2 DEF Live
  <2> QED
    BY <2>1, <2>2
<1>9. GuardsHold'
  BY <1>2, <1>8 DEF GuardsHold
<1>10. GuardsBounded'
  BY <1>1, <1>2 DEF GuardInv, GuardsBounded
<1>11. ASSUME req'[r].pc = "admit", NEW q \in Requests, req[q].key = req'[r].key PROVE now >= guard[q]
  <2>1. c.won
    BY <1>4, <1>5, <1>11
  <2>2. ~(guard[q] > now)
    BY <1>5, <1>6, <1>11, <2>1 DEF GuardInv, GuardsHold
  <2> QED
    BY <1>1, <2>2
<1> QED
  BY <1>5, <1>9, <1>10, <1>11 DEF GuardInv

\* complete: the slot of a guarded key was live, so it is written, for the whole window.
LEMMA PersistGuards ==
    ASSUME CallInv, StoreInv, GuardInv, NEW r \in Keyed, Persist(r) PROVE GuardInv'
<1> DEFINE k == req[r].key
           s == Slot(k)
           b == BodySlot(k, req[r].fp)
<1>1. /\ r \in Requests /\ TypeOK /\ now \in Nat /\ guard \in [Requests -> Nat] /\ DoneTTL \in Nat
  BY LimitsAssumption DEF Requests, CallInv, TypeOK
<1>2. now' = now /\ k \in Keys /\ \A q \in Requests : req'[q].key = req[q].key
  BY PersistStores
<1>3. CASE kv' = kv /\ guard' = guard
  BY <1>2, <1>3 DEF GuardInv, GuardsHold, GuardsBounded
<1>4. CASE /\ \E size \in Nat : Promote(k, req[r].fp, size)
           /\ guard' = IF HoldsClaim(r) THEN [guard EXCEPT ![r] = now + DoneTTL] ELSE guard
  <2>1. /\ Keeps(kv, kv', {s, b}, now)
        /\ (s \in DOMAIN kv' /\ kv'[s].exp = now + DoneTTL) \/ ~Live(kv, s, now)
    BY <1>1, <1>2, <1>4, PromoteStores
  <2>2. HoldsClaim(r) => Live(kv, s, now)
    BY DEF HoldsClaim
  <2>3. \A q \in Requests : /\ guard'[q] = guard[q] \/ (q = r /\ HoldsClaim(r) /\ guard'[q] = now + DoneTTL)
                            /\ guard'[q] \in Nat
    BY <1>1, <1>4
  <2>4. \A q \in Requests : guard[q] <= now + DoneTTL
    BY DEF GuardInv, GuardsBounded
  <2>5. ASSUME NEW q \in Requests, guard'[q] > now
        PROVE  /\ req[q].key \in Keys /\ Live(kv', Slot(req[q].key), now)
               /\ kv'[Slot(req[q].key)].exp >= guard'[q]
    <3>1. /\ req[q].key \in Keys /\ Live(kv, Slot(req[q].key), now)
          /\ guard'[q] = guard[q] => kv[Slot(req[q].key)].exp >= guard'[q]
      <4>1. CASE guard'[q] = guard[q]
        BY <2>5, <4>1 DEF GuardInv, GuardsHold
      <4>2. CASE q = r /\ HoldsClaim(r) /\ guard'[q] # guard[q]
        BY <1>2, <2>2, <4>2
      <4> QED
        BY <2>3, <4>1, <4>2
    <3>2. CASE req[q].key = k
      <4>1. s \in DOMAIN kv' /\ kv'[s].exp = now + DoneTTL
        BY <2>1, <3>1, <3>2
      <4>2. guard'[q] <= now + DoneTTL
        BY <1>1, <2>3, <2>4
      <4> QED
        BY <1>1, <2>3, <2>5, <3>1, <3>2, <4>1, <4>2 DEF Live
    <3>3. CASE req[q].key # k
      <4> DEFINE t == Slot(req[q].key)
      <4>1. t \notin {s, b}
        BY <3>3, KeysApart
      <4>2. guard'[q] = guard[q]
        BY <2>3, <3>3
      <4>3. t \in DOMAIN kv /\ kv[t].exp > now /\ kv[t].exp >= guard'[q]
        BY <3>1, <4>2 DEF Live
      <4> HIDE DEF t, s, b
      <4>4. t \in DOMAIN kv' /\ kv'[t] = kv[t]
        BY <2>1, <4>1, <4>3 DEF Keeps
      <4> QED
        BY <3>1, <4>3, <4>4 DEF Live, t
    <3> QED
      BY <3>2, <3>3
  <2>6. GuardsHold'
    BY <1>2, <2>5 DEF GuardsHold
  <2>7. GuardsBounded'
    BY <1>1, <1>2, <2>3, <2>4 DEF GuardsBounded
  <2> QED
    BY <2>6, <2>7 DEF GuardInv
<1> QED
  BY <1>3, <1>4, PersistStores

LEMMA InitGuardInv == Init => GuardInv
<1>1. Init => now = 0 /\ DoneTTL \in Nat /\ \A r \in Requests : guard[r] = 0
  BY LimitsAssumption DEF Init
<1> QED
  BY <1>1 DEF GuardInv, GuardsHold, GuardsBounded

LEMMA NextGuardInv ==
    ASSUME PendingTTL <= DoneTTL, CallInv, StoreInv, GuardInv, [Next]_vars
    PROVE  /\ GuardInv'
           /\ \A r, q \in Requests :
                (/\ req[r].pc = "new" /\ req'[r].pc = "admit" /\ req'[r].key # NoKey
                 /\ q # r /\ req[q].key = req'[r].key /\ sent[q] > 0)
                => now >= guard[q]
<1> DEFINE Once == \A r, q \in Requests :
                     (/\ req[r].pc = "new" /\ req'[r].pc = "admit" /\ req'[r].key # NoKey
                      /\ q # r /\ req[q].key = req'[r].key /\ sent[q] > 0)
                     => now >= guard[q]
<1>1. \A r \in Requests : req[r].pc = "new" => req[r].key = NoKey
  BY DEF CallInv, RowOK
<1>2. ASSUME \A r \in Requests : req'[r].key = req[r].key PROVE Once
  BY <1>1, <1>2
<1>3. CASE QuietStep /\ GuardsStay
  BY <1>2, <1>3, QuietGuards DEF GuardsStay
<1>4. CASE \/ Tick \/ Sweep \/ Drain \/ UNCHANGED vars
           \/ \E r \in Streams : \/ StartStream(r) \/ StreamEnds(r) \/ TaskStart(r) \/ EmitEvent(r)
                                 \/ Acquire(r) \/ AcquireTimeout(r) \/ Write(r) \/ TaskTimeout(r)
  BY <1>3, <1>4, QuietOthers
<1>5. ASSUME NEW r \in Requests,
             \/ InjectFails(r) \/ Attempt(r) \/ Transmit(r)
             \/ PreSendError(r) \/ PostSendError(r) \/ Deadline(r)
             \/ \E s \in Statuses : Respond(r, s)
      PROVE  GuardInv' /\ Once
  BY <1>3, <1>5, QuietCalls
<1>6. ASSUME NEW k \in OtherKeys, OtherClaim(k) PROVE GuardInv' /\ Once
  <2> DEFINE c == SetIfAbsent(kv, Slot(k), Claim(NoFp, "other"), ClaimSize, PendingTTL, now)
  <2>1. kv' = c.kv /\ now' = now /\ UNCHANGED <<req, guard>>
    BY <1>6 DEF OtherClaim, reqVars
  <2>2. \/ Keeps(kv, kv', {}, now)
        \/ ~Live(kv, Slot(k), now) /\ Keeps(kv, kv', {Slot(k)}, now)
    <3>1. now \in Nat
      BY DEF CallInv, TypeOK
    <3> QED
      BY <2>1, <3>1, ClaimStores
  <2> HIDE DEF c
  <2>3. GuardsHold'
    BY <2>1, <2>2, ClaimGuards DEF GuardsHold
  <2>4. GuardsBounded'
    BY <2>1 DEF GuardInv, GuardsBounded
  <2> QED
    BY <1>2, <2>1, <2>3, <2>4 DEF GuardInv
<1>7. ASSUME NEW p \in Keyed, NEW k \in Keys, NEW f \in Prints, Begin(p, k, f) PROVE GuardInv' /\ Once
  <2>1. /\ GuardInv' /\ \A q \in Requests : q # p => req'[q] = req[q]
        /\ req'[p].pc = "admit" => \A q \in Requests : req[q].key = req'[p].key => now >= guard[q]
    BY <1>7, BeginGuards
  <2>2. Once
    BY <1>1, <2>1
  <2> QED
    BY <2>1, <2>2
<1>8. ASSUME NEW r \in Keyed, Persist(r) PROVE GuardInv' /\ Once
  BY <1>2, <1>8, PersistGuards, PersistStores
<1> QED
  BY <1>4, <1>5, <1>6, <1>7, <1>8 DEF Next

\* While an earlier run of a key is protected no other request runs it: the budgets
\* never push its slot out, a late completion never shortens it, and a refused record
\* leaves a tombstone.  The window of a response must not be shorter than a claim's,
\* as the settings have it by default.
THEOREM KeysRunOnce ==
    ASSUME PendingTTL <= DoneTTL
    PROVE  Spec => KeyRunsOnceWhileGuarded
<1> DEFINE IInv == CallInv /\ StoreInv /\ GuardInv
<1>1. Init => IInv
  BY InitCallInv, InitStoreInv, InitGuardInv
<1>2. IInv /\ [Next]_vars => IInv'
  BY NextCallInv, NextStoreInv, NextGuardInv
<1>3. IInv /\ [Next]_vars =>
        [\A r, q \in Requests :
            (/\ req[r].pc = "new" /\ req'[r].pc = "admit" /\ req'[r].key # NoKey
             /\ q # r /\ req[q].key = req'[r].key /\ sent[q] > 0)
            => now >= guard[q]]_vars
  BY NextGuardInv
<1> QED
  BY <1>1, <1>2, <1>3, PTL DEF Spec, KeyRunsOnceWhileGuarded


=============================================================================
