------------------------ MODULE TokenFamiliesProofs ------------------------
(***************************************************************************)
(* The safety properties of TokenFamilies for any number of tokens, codes  *)
(* and requests.  On both databases: one live refresh token per family,    *)
(* one pair per authorization code, and nothing resolves for a revoked     *)
(* consent grant.  With serialised writes: family revocations are final.   *)
(*                                                                         *)
(* Rotations says why the row lock is enough: the token a rotation in      *)
(* flight holds is still live and no other rotation holds it.  Exchanges   *)
(* says the same of the codes between their consumption and their mint,    *)
(* Lineage that a chain keeps the stamp of its first pair, and Sweeps that *)
(* a serialised revocation has every row of its family in its sets.        *)
(***************************************************************************)
EXTENDS TokenFamilies, TLAPS

\* The shapes the argument uses.
Shapes ==
    /\ code \in [Codes -> {"none", "issued", "consumed"}]
    /\ fam \in [Pairs -> {0} \cup Pairs]
    /\ granted \subseteq Pairs
    /\ minted \in [Codes -> Nat]
    /\ req \in [Requests -> {Idle} \cup InFlight]

\* A family is named by an issued pair.
Named == \A i \in Pairs : fam[i] # 0 => fam[fam[i]] = fam[i]

\* A token being rotated is live, and one rotation holds it.
Rotations ==
    \A r \in Requests : req[r].op = "rotate" =>
        /\ req[r].pair \in Issued \ (deadR \cup consumed)
        /\ \A s \in Requests : req[s].op = "rotate" /\ req[s].pair = req[r].pair => s = r

\* A code being exchanged is consumed, has bought nothing, and one request has it.
Exchanges ==
    /\ \A c \in Codes : minted[c] # 0 => code[c] = "consumed"
    /\ \A r \in Requests : req[r].op = "mint" =>
          /\ code[req[r].code] = "consumed" /\ minted[req[r].code] = 0
          /\ \A s \in Requests : req[s].op = "mint" /\ req[s].code = req[r].code => s = r

\* The inductive invariant.
LiveInv ==
    /\ Shapes
    /\ Named
    /\ Rotations
    /\ Exchanges
    /\ OneLiveRefresh
    /\ CodeMintsOnce

-----------------------------------------------------------------------------

\* The records of requests, field by field.
LEMMA Fields ==
    ASSUME Shapes, NEW r \in Requests
    PROVE  /\ req[r].op = "mint" => req[r].code \in Codes
           /\ req[r].op = "rotate" => req[r].pair \in Pairs
           /\ req[r].op = "family" => /\ req[r].fam \in Pairs
                                      /\ req[r].seen \subseteq Pairs
                                      /\ req[r].held \subseteq Pairs
           /\ req[r].op = "grant" => /\ req[r].seenR \subseteq Pairs
                                     /\ req[r].held \subseteq Pairs
BY DEF Shapes, InFlight, Idle

\* Rows a request may write are not held by another's rotation.
LEMMA FreeRows ==
    ASSUME NEW r \in Requests, NEW s \in Requests, NEW rows, Free(r, rows),
           s # r, req[s].op = "rotate"
    PROVE  req[s].pair \notin rows
BY DEF Free, Open, Locked

\* A request that leaves the stage, or takes up a verb other than rotate and
\* mint, with codes and live tokens as they were.
LEMMA QuietStep ==
    ASSUME LiveInv, NEW r \in Requests, NEW q \in {Idle} \cup InFlight,
           q.op \notin {"rotate", "mint"},
           req' = [req EXCEPT ![r] = q],
           UNCHANGED <<code, fam, granted, consumed, deadR, minted>>
    PROVE  LiveInv'
<1>1. Shapes' /\ Named'
  BY DEF LiveInv, Shapes, Named
<1>2. Rotations' /\ Exchanges'
  BY DEF LiveInv, Shapes, Rotations, Exchanges, Issued
<1>. QED
  BY <1>1, <1>2 DEF LiveInv, OneLiveRefresh, CodeMintsOnce, Issued

\* Revoking refresh rows that no other rotation holds.
LEMMA RevokeStep ==
    ASSUME LiveInv, NEW r \in Requests, NEW rows, Free(r, rows),
           req[r].op \notin {"rotate", "mint"},
           deadR' = deadR \cup rows,
           req' = [req EXCEPT ![r] = Idle],
           UNCHANGED <<code, fam, granted, consumed, minted>>
    PROVE  LiveInv'
<1>1. Shapes' /\ Named'
  BY DEF LiveInv, Shapes, Named
<1>i. Idle.op = "idle"
  BY DEF Idle
<1>2. ASSUME NEW s \in Requests, req'[s].op = "rotate"
      PROVE  s # r /\ req'[s] = req[s] /\ req[s].pair \notin rows
  <2>1. s # r /\ req'[s] = req[s]
    BY <1>2, <1>i DEF LiveInv, Shapes
  <2>. QED
    BY <1>2, <2>1, FreeRows
<1>3. Rotations'
  BY <1>2 DEF LiveInv, Rotations, Issued
<1>4. Exchanges'
  BY <1>i DEF LiveInv, Shapes, Exchanges
<1>. QED
  BY <1>1, <1>3, <1>4 DEF LiveInv, OneLiveRefresh, CodeMintsOnce, Issued

\* A new pair that starts a family.
LEMMA NewFamily ==
    ASSUME LiveInv, NEW n \in Pairs, NEW stamped, Fresh(n), Insert(n, n, stamped),
           consumed' = consumed
    PROVE  /\ fam' \in [Pairs -> {0} \cup Pairs]
           /\ Named'
           /\ OneLiveRefresh'
           /\ Issued' = Issued \cup {n}
           /\ deadR' = deadR /\ granted' \subseteq Pairs
<1>1. fam' = [fam EXCEPT ![n] = n] /\ deadR' = deadR
  BY DEF Insert
<1>2. fam \in [Pairs -> {0} \cup Pairs] /\ n # 0 /\ fam[n] = 0
  BY PairAssumption DEF LiveInv, Shapes, Fresh, Issued, Pairs
<1>3. \A i \in Pairs : fam[i] # n
  BY <1>2 DEF LiveInv, Named
<1>4. fam' \in [Pairs -> {0} \cup Pairs] /\ Issued' = Issued \cup {n}
  BY <1>1, <1>2 DEF Issued
<1>5. Named'
  BY <1>1, <1>2, <1>3 DEF LiveInv, Named
<1>6. OneLiveRefresh'
  BY <1>1, <1>2, <1>3, <1>4 DEF LiveInv, OneLiveRefresh, Issued
<1>7. granted' \subseteq Pairs
  BY DEF Insert, LiveInv, Shapes
<1>. QED
  BY <1>1, <1>4, <1>5, <1>6, <1>7

-----------------------------------------------------------------------------
(* One lemma per action that takes a row or a code *)

LEMMA InitLive == Init => LiveInv
<1>. SUFFICES ASSUME Init PROVE LiveInv
  OBVIOUS
<1>1. Shapes
  BY DEF Init, Shapes
<1>2. Issued = {} /\ \A r \in Requests : req[r].op = "idle"
  BY DEF Init, Issued, Idle
<1>. QED
  BY <1>1, <1>2 DEF Init, LiveInv, Named, Rotations, Exchanges, OneLiveRefresh, CodeMintsOnce

LEMMA IssueCodeLive ==
    ASSUME LiveInv, NEW r \in Requests, NEW c \in Codes, IssueCode(r, c)
    PROVE  LiveInv'
<1>1. /\ code[c] = "none" /\ code' = [code EXCEPT ![c] = "issued"]
      /\ UNCHANGED <<fam, granted, consumed, deadR, req, minted>>
  BY DEF IssueCode, pairVars, ghosts
<1>2. Shapes' /\ Exchanges'
  BY <1>1, Fields DEF LiveInv, Shapes, Exchanges
<1>. QED
  BY <1>1, <1>2 DEF LiveInv, Named, Rotations, OneLiveRefresh, CodeMintsOnce, Issued

LEMMA ExchangeCodeLive ==
    ASSUME LiveInv, NEW r \in Requests, NEW c \in Codes, ExchangeCode(r, c)
    PROVE  LiveInv'
<1>. DEFINE q == [op |-> "mint", code |-> c]
<1>1. /\ code[c] = "issued" /\ code' = [code EXCEPT ![c] = "consumed"]
      /\ req' = [req EXCEPT ![r] = q]
      /\ UNCHANGED <<fam, granted, consumed, deadR, minted>>
  BY DEF ExchangeCode, pairVars, ghosts
<1>2. q \in InFlight
  BY DEF InFlight
<1>3. q.op = "mint" /\ q.code = c
  OBVIOUS
<1>. HIDE DEF q
<1>4. Shapes'
  BY <1>1, <1>2 DEF LiveInv, Shapes
<1>5. minted[c] = 0 /\ \A s \in Requests : req[s].op = "mint" => req[s].code # c
  BY <1>1 DEF LiveInv, Exchanges
<1>6. Rotations'
  BY <1>1, <1>3 DEF LiveInv, Shapes, Rotations, Issued
<1>7. Exchanges'
  BY <1>1, <1>3, <1>5, Fields DEF LiveInv, Shapes, Exchanges
<1>. QED
  BY <1>1, <1>4, <1>6, <1>7 DEF LiveInv, Named, OneLiveRefresh, CodeMintsOnce, Issued

LEMMA MintLive ==
    ASSUME LiveInv, NEW r \in Requests, NEW n \in Pairs, MintForCode(r, n)
    PROVE  LiveInv'
<1>. DEFINE c == req[r].code
<1>1. /\ req[r].op = "mint" /\ Fresh(n) /\ Insert(n, n, TRUE)
      /\ minted' = [minted EXCEPT ![c] = @ + 1]
      /\ req' = [req EXCEPT ![r] = Idle]
      /\ UNCHANGED <<code, consumed>>
  BY DEF MintForCode
<1>2. /\ fam' \in [Pairs -> {0} \cup Pairs] /\ Named' /\ OneLiveRefresh'
      /\ Issued' = Issued \cup {n} /\ deadR' = deadR /\ granted' \subseteq Pairs
  BY <1>1, NewFamily
<1>3. /\ c \in Codes /\ minted[c] = 0 /\ code[c] = "consumed"
      /\ \A s \in Requests \ {r} : req[s].op = "mint" => req[s].code # c
  BY <1>1, Fields DEF LiveInv, Exchanges
<1>i. Idle.op = "idle"
  BY DEF Idle
<1>. HIDE DEF c
<1>4. Shapes' /\ CodeMintsOnce'
  BY <1>1, <1>2, <1>3 DEF LiveInv, Shapes, CodeMintsOnce
<1>5. Rotations'
  BY <1>1, <1>2, <1>i DEF LiveInv, Shapes, Rotations
<1>6. Exchanges'
  BY <1>1, <1>3, <1>i, Fields DEF LiveInv, Shapes, Exchanges
<1>. QED
  BY <1>2, <1>4, <1>5, <1>6 DEF LiveInv

LEMMA AssertionLive ==
    ASSUME LiveInv, NEW r \in Requests, VerifyAssertion(r)
    PROVE  LiveInv'
<1>. DEFINE q == [op |-> "assertion"]
<1>1. q \in InFlight /\ q.op = "assertion"
  BY DEF InFlight
<1>2. req' = [req EXCEPT ![r] = q] /\ UNCHANGED <<code, fam, granted, consumed, deadR, minted>>
  BY DEF VerifyAssertion, pairVars, ghosts
<1>. QED
  BY <1>1, <1>2, QuietStep

LEMMA IssuePairLive ==
    ASSUME LiveInv, NEW r \in Requests, NEW n \in Pairs, IssuePair(r, n)
    PROVE  LiveInv'
<1>1. /\ Fresh(n) /\ Insert(n, n, FALSE)
      /\ req' = [req EXCEPT ![r] = Idle]
      /\ UNCHANGED <<code, consumed, minted>>
  BY DEF IssuePair, ghosts
<1>2. /\ fam' \in [Pairs -> {0} \cup Pairs] /\ Named' /\ OneLiveRefresh'
      /\ Issued' = Issued \cup {n} /\ deadR' = deadR /\ granted' \subseteq Pairs
  BY <1>1, NewFamily
<1>i. Idle.op = "idle"
  BY DEF Idle
<1>3. Shapes' /\ CodeMintsOnce'
  BY <1>1, <1>2 DEF LiveInv, Shapes, CodeMintsOnce
<1>4. Rotations'
  BY <1>1, <1>2, <1>i DEF LiveInv, Shapes, Rotations
<1>5. Exchanges'
  BY <1>1, <1>i DEF LiveInv, Shapes, Exchanges
<1>. QED
  BY <1>2, <1>3, <1>4, <1>5 DEF LiveInv

\* The row lock: nobody else rotates the token a refresh has just read as live.
LEMMA RefreshLive ==
    ASSUME LiveInv, NEW r \in Requests, NEW i \in Pairs, Refresh(r, i)
    PROVE  LiveInv'
<1>. DEFINE q == [op |-> "rotate", pair |-> i]
<1>1. /\ Free(r, {i}) /\ i \in Issued \ (deadR \cup consumed)
      /\ req' = [req EXCEPT ![r] = q]
      /\ UNCHANGED <<code, fam, granted, consumed, deadR, minted>>
  BY DEF Refresh, pairVars, ghosts
<1>2. q \in InFlight
  BY DEF InFlight
<1>3. q.op = "rotate" /\ q.pair = i
  OBVIOUS
<1>. HIDE DEF q
<1>4. Shapes'
  BY <1>1, <1>2 DEF LiveInv, Shapes
<1>5. \A s \in Requests \ {r} : req[s].op = "rotate" => req[s].pair # i
  BY <1>1, FreeRows
<1>6. Rotations'
  BY <1>1, <1>3, <1>5 DEF LiveInv, Shapes, Rotations, Issued
<1>7. Exchanges'
  BY <1>1, <1>3 DEF LiveInv, Shapes, Exchanges
<1>. QED
  BY <1>1, <1>4, <1>6, <1>7 DEF LiveInv, Named, OneLiveRefresh, CodeMintsOnce, Issued

\* The rotation replaces the family's live token by its heir.
LEMMA RotateLive ==
    ASSUME LiveInv, NEW r \in Requests, NEW n \in Pairs, Rotate(r, n)
    PROVE  LiveInv'
<1>. DEFINE i == req[r].pair
<1>1. /\ req[r].op = "rotate" /\ Fresh(n)
      /\ fam' = [fam EXCEPT ![n] = fam[i]] /\ deadR' = deadR
      /\ consumed' = consumed \cup {i}
      /\ req' = [req EXCEPT ![r] = Idle]
      /\ UNCHANGED <<code, minted>>
  BY DEF Rotate, Insert, ghosts
<1>2. /\ i \in Issued \ (deadR \cup consumed)
      /\ \A s \in Requests \ {r} : req[s].op = "rotate" => req[s].pair # i
  BY <1>1 DEF LiveInv, Rotations
<1>3. /\ fam \in [Pairs -> {0} \cup Pairs] /\ fam[n] = 0
      /\ i \in Pairs /\ fam[i] \in Pairs /\ fam[i] # 0
  BY <1>1, <1>2, PairAssumption DEF LiveInv, Shapes, Fresh, Issued
<1>i. Idle.op = "idle"
  BY DEF Idle
<1>. HIDE DEF i
<1>4. Shapes'
  <2>1. granted' \subseteq Pairs
    BY DEF Rotate, Insert, LiveInv, Shapes
  <2>. QED
    BY <1>1, <1>3, <2>1 DEF LiveInv, Shapes
<1>5. fam[n] = 0 /\ \A j \in Pairs : fam[j] # 0 => fam[j] # n
  BY <1>3 DEF LiveInv, Named
<1>6. Named'
  BY <1>1, <1>3, <1>5 DEF LiveInv, Named
<1>7. Issued' = Issued \cup {n}
  BY <1>1, <1>3 DEF Issued
<1>8. Rotations'
  BY <1>1, <1>2, <1>7, <1>i DEF LiveInv, Shapes, Rotations
<1>9. OneLiveRefresh'
  <2>1. \A j \in Issued \ (deadR \cup consumed) : fam[j] = fam[i] => j = i
    BY <1>2 DEF LiveInv, OneLiveRefresh
  <2>2. SUFFICES ASSUME NEW j \in Issued' \ (deadR \cup consumed'),
                        NEW k \in Issued' \ (deadR \cup consumed'),
                        fam'[j] = fam'[k]
                 PROVE  j = k
    BY <1>1 DEF OneLiveRefresh
  <2>3. fam'[n] = fam[i] /\ \A l \in Issued : l # n /\ fam'[l] = fam[l]
    BY <1>1, <1>3 DEF Issued
  <2>4. \A l \in Issued \ (deadR \cup consumed') : fam[l] # fam[i]
    BY <1>1, <2>1
  <2>5. j = n <=> k = n
    BY <1>7, <2>2, <2>3, <2>4
  <2>. QED
    BY <1>1, <1>7, <2>2, <2>3, <2>5 DEF LiveInv, OneLiveRefresh
<1>10. Exchanges' /\ CodeMintsOnce'
  BY <1>1, <1>i DEF LiveInv, Shapes, Exchanges, CodeMintsOnce
<1>. QED
  BY <1>4, <1>6, <1>8, <1>9, <1>10 DEF LiveInv

\* A revocation that starts takes no live token and no code.
LEMMA StartFamilyLive ==
    ASSUME LiveInv, NEW r \in Requests, NEW i \in Issued, NEW held \in SUBSET Pairs,
           NEW full \in BOOLEAN, StartFamily(r, i, held, full),
           UNCHANGED <<code, fam, granted, consumed, deadR, minted>>
    PROVE  LiveInv'
<1>. DEFINE q == [op |-> "family", fam |-> fam[i], held |-> held,
                  seen |-> Family(fam[i]) \ deadR, full |-> full]
<1>1. fam[i] \in Pairs /\ Family(fam[i]) \ deadR \in SUBSET Pairs
  BY DEF LiveInv, Shapes, Issued, Family
<1>2. q \in InFlight /\ q.op = "family"
  BY <1>1 DEF InFlight
<1>3. req' = [req EXCEPT ![r] = q]
  BY DEF StartFamily
<1>. QED
  BY <1>2, <1>3, QuietStep

LEMMA ContinueLive ==
    ASSUME LiveInv, NEW r \in Requests, ContinueToGrant(r)
    PROVE  LiveInv'
<1>. DEFINE q == [op |-> "grant", held |-> req[r].held \cup req[r].seen, fams |-> {req[r].fam},
                  seenR |-> req[r].seen \cup (granted \ deadR),
                  seenA |-> Family(req[r].fam) \cup granted]
<1>1. /\ req[r].op = "family" /\ req' = [req EXCEPT ![r] = q]
      /\ UNCHANGED <<code, fam, granted, consumed, deadR, minted>>
  BY DEF ContinueToGrant, pairVars, ghosts
<1>2. req[r].fam \in Pairs /\ req[r].seen \subseteq Pairs /\ req[r].held \subseteq Pairs
  BY <1>1, Fields DEF LiveInv
<1>3. granted \subseteq Pairs
  BY DEF LiveInv, Shapes
<1>4. Family(req[r].fam) \subseteq Pairs
  BY DEF Family
<1>5. q \in InFlight /\ q.op = "grant"
  BY <1>2, <1>3, <1>4 DEF InFlight
<1>. QED
  BY <1>1, <1>5, QuietStep

LEMMA StartGrantLive ==
    ASSUME LiveInv, NEW r \in Requests, StartGrant(r)
    PROVE  LiveInv'
<1>. DEFINE q == [op |-> "grant", held |-> {}, fams |-> {}, seenR |-> granted \ deadR, seenA |-> granted]
<1>1. req' = [req EXCEPT ![r] = q] /\ UNCHANGED <<code, fam, granted, consumed, deadR, minted>>
  BY DEF StartGrant, pairVars, ghosts
<1>2. q \in InFlight /\ q.op = "grant"
  BY DEF LiveInv, Shapes, InFlight
<1>. QED
  BY <1>1, <1>2, QuietStep

\* Every step keeps the invariant.
LEMMA NextLive == LiveInv /\ [Next]_vars => LiveInv'
<1>. SUFFICES ASSUME LiveInv, [Next]_vars PROVE LiveInv'
  OBVIOUS
<1>1. CASE Issuing
  BY <1>1, IssueCodeLive, ExchangeCodeLive, AssertionLive, MintLive, IssuePairLive DEF Issuing
<1>2. CASE Refreshing
  <2>1. ASSUME NEW r \in Requests, NEW i \in Pairs, RefuseRefresh(r, i) PROVE LiveInv'
    BY <2>1, StartFamilyLive DEF RefuseRefresh, pairVars, ghosts
  <2>. QED
    BY <1>2, <2>1, RefreshLive, RotateLive DEF Refreshing
<1>3. CASE Revoking
  <2>1. ASSUME NEW r \in Requests, NEW i \in Pairs, RevokeRefresh(r, i) PROVE LiveInv'
    BY <2>1, StartFamilyLive DEF RevokeRefresh, pairVars, ghosts
  <2>2. ASSUME NEW r \in Requests, NEW i \in Pairs, RevokeAccess(r, i) PROVE LiveInv'
    BY <2>2 DEF RevokeAccess, ghosts, LiveInv, Shapes, Named, Rotations, Exchanges,
                OneLiveRefresh, CodeMintsOnce, Issued
  <2>3. ASSUME NEW r \in Requests, FinishFamily(r) PROVE LiveInv'
    BY <2>3, RevokeStep DEF FinishFamily
  <2>4. ASSUME NEW r \in Requests, FinishGrant(r) PROVE LiveInv'
    BY <2>4, RevokeStep DEF FinishGrant
  <2>. QED
    BY <1>3, <2>1, <2>2, <2>3, <2>4, ContinueLive, StartGrantLive DEF Revoking
<1>4. CASE Environment
  <2>1. ASSUME NEW r \in Requests, Abandon(r) PROVE LiveInv'
    <3>1. Idle.op = "idle"
      BY DEF Idle
    <3>. QED
      BY <2>1, <3>1, QuietStep DEF Abandon, pairVars, ghosts
  <2>2. CASE ToggleActor \/ ToggleClient
    BY <2>2 DEF ToggleActor, ToggleClient, pairVars, ghosts, LiveInv, Shapes, Named, Rotations,
                Exchanges, OneLiveRefresh, CodeMintsOnce, Issued
  <2>. QED
    BY <1>4, <2>1, <2>2 DEF Environment
<1>5. CASE UNCHANGED vars
  BY <1>5 DEF vars, pairVars, ghosts, LiveInv, Shapes, Named, Rotations, Exchanges,
              OneLiveRefresh, CodeMintsOnce, Issued
<1>. QED
  BY <1>1, <1>2, <1>3, <1>4, <1>5 DEF Next

LEMMA AlwaysLive == Spec => []LiveInv
BY InitLive, NextLive, PTL DEF Spec

-----------------------------------------------------------------------------

\* refresh locks the presented row until its rotation commits: whatever else is
\* under way, a family has at most one refresh token that can be rotated.
THEOREM OneHeir == Spec => []OneLiveRefresh
<1>1. LiveInv => OneLiveRefresh
  BY DEF LiveInv
<1>. QED
  BY <1>1, AlwaysLive, PTL

\* exchange_code consumes the code in a transaction of its own before the pair
\* is minted: two exchanges of one code never both mint.
THEOREM SingleUseCodes == Spec => []CodeMintsOnce
<1>1. LiveInv => CodeMintsOnce
  BY DEF LiveInv
<1>. QED
  BY <1>1, AlwaysLive, PTL

-----------------------------------------------------------------------------
(* Lineage: a chain keeps the stamp of its first pair *)

\* Stamped pairs are issued, and a pair is stamped when its family's first is.
Lineage ==
    /\ granted \subseteq Issued
    /\ \A i \in Issued : fam[i] \in granted <=> i \in granted

LEMMA LineageUnchanged ==
    ASSUME Lineage, UNCHANGED <<fam, granted>>
    PROVE  Lineage'
BY DEF Lineage, Issued

\* A new pair of family f carries the stamp of f, or starts f.
LEMMA LineageInsert ==
    ASSUME LiveInv, Lineage, NEW n \in Pairs, Fresh(n), NEW f \in Pairs, NEW stamped \in BOOLEAN,
           Insert(n, f, stamped), f = n \/ (f \in Issued /\ fam[f] = f /\ (f \in granted <=> stamped))
    PROVE  Lineage'
<1>1. /\ fam' = [fam EXCEPT ![n] = f]
      /\ granted' = IF stamped THEN granted \cup {n} ELSE granted
  BY DEF Insert
<1>2. fam \in [Pairs -> {0} \cup Pairs] /\ fam[n] = 0 /\ f # 0 /\ n \notin granted
  BY PairAssumption DEF LiveInv, Shapes, Fresh, Issued, Pairs, Lineage
<1>3. \A i \in Pairs : fam[i] # n
  BY <1>2, PairAssumption DEF LiveInv, Named, Pairs
<1>4. Issued' = Issued \cup {n} /\ fam'[n] = f /\ \A i \in Issued : i # n /\ fam'[i] = fam[i]
  BY <1>1, <1>2 DEF Issued
<1>5. \A i \in Issued : fam[i] \in Pairs /\ fam[i] # n
  BY <1>2, <1>3 DEF Issued
<1>. QED
  BY <1>1, <1>2, <1>4, <1>5 DEF Lineage

LEMMA NextLineage == LiveInv /\ Lineage /\ [Next]_vars => Lineage'
<1>. SUFFICES ASSUME LiveInv, Lineage, [Next]_vars PROVE Lineage'
  OBVIOUS
<1>1. ASSUME NEW r \in Requests, NEW n \in Pairs, MintForCode(r, n) \/ IssuePair(r, n)
      PROVE  Lineage'
  BY <1>1, LineageInsert DEF MintForCode, IssuePair
<1>2. ASSUME NEW r \in Requests, NEW n \in Pairs, Rotate(r, n) PROVE Lineage'
  <2>. DEFINE i == req[r].pair
  <2>1. i \in Issued
    BY <1>2 DEF Rotate, LiveInv, Rotations
  <2>2. fam[i] \in Pairs /\ fam[fam[i]] = fam[i] /\ fam[i] \in Issued
    BY <2>1 DEF LiveInv, Shapes, Named, Issued
  <2>3. Fresh(n)
    BY <1>2 DEF Rotate
  <2>4. CASE i \in granted
    <3>1. Insert(n, fam[i], TRUE)
      BY <1>2, <2>4 DEF Rotate, Insert
    <3>2. fam[i] \in granted
      BY <2>1, <2>4 DEF Lineage
    <3>. QED
      BY <2>2, <2>3, <3>1, <3>2, LineageInsert
  <2>5. CASE i \notin granted
    <3>1. Insert(n, fam[i], FALSE)
      BY <1>2, <2>5 DEF Rotate, Insert
    <3>2. fam[i] \notin granted
      BY <2>1, <2>5 DEF Lineage
    <3>. QED
      BY <2>2, <2>3, <3>1, <3>2, LineageInsert
  <2>. QED
    BY <2>4, <2>5
<1>3. CASE UNCHANGED <<fam, granted>>
  BY <1>3, LineageUnchanged
<1>4. CASE Issuing
  BY <1>1, <1>3, <1>4 DEF Issuing, IssueCode, ExchangeCode, VerifyAssertion, pairVars
<1>5. CASE Refreshing
  BY <1>2, <1>3, <1>5 DEF Refreshing, Refresh, RefuseRefresh, pairVars
<1>6. CASE Revoking
  BY <1>3, <1>6 DEF Revoking, RevokeRefresh, RevokeAccess, FinishFamily, ContinueToGrant,
                    StartGrant, FinishGrant, pairVars
<1>7. CASE Environment
  BY <1>3, <1>7 DEF Environment, ToggleActor, ToggleClient, Abandon, pairVars
<1>8. CASE UNCHANGED vars
  BY <1>3, <1>8 DEF vars, pairVars
<1>. QED
  BY <1>4, <1>5, <1>6, <1>7, <1>8 DEF Next

\* Revoking the consent grant ends every chain it started, also the pairs that
\* an exchange or a rotation under way inserted behind the sweep.
THEOREM RevokedConsentIsDead == Spec => []RevokedGrantResolvesNothing
<1>1. Init => Lineage
  BY DEF Init, Lineage, Issued
<1>2. Lineage => RevokedGrantResolvesNothing
  BY DEF Lineage, RevokedGrantResolvesNothing, Resolves
<1>. QED
  BY <1>1, <1>2, AlwaysLive, NextLineage, PTL DEF Spec

-----------------------------------------------------------------------------
(* Family revocation with serialised write transactions *)

\* One write transaction at a time.
Exclusive == \A r, s \in Requests : Open(r) /\ Open(s) => r = s

\* A revocation under way has every live row of its families in its sets.
Sweeps ==
    \A r \in Requests :
        /\ req[r].op = "family" =>
              req[r].fam \in Issued /\ Family(req[r].fam) \ deadR \subseteq req[r].seen
        /\ req[r].op = "grant" => \A f \in req[r].fams :
              f \in Issued /\ Family(f) \ deadR \subseteq req[r].seenR /\ Family(f) \subseteq req[r].seenA

\* The inductive invariant on SQLite.
DeadInv ==
    /\ Exclusive
    /\ Sweeps
    /\ doomed \subseteq Issued
    /\ RevokedFamilyIsDead

\* One request ends, or starts a sweep that is complete; rows as they were.
LEMMA DeadQuiet ==
    ASSUME LiveInv, DeadInv, NEW r \in Requests, NEW q,
           req' = [req EXCEPT ![r] = q],
           q.op \in {"rotate", "family", "grant"} => \A s \in Requests \ {r} : ~Open(s),
           q.op = "family" => q.fam \in Issued /\ Family(q.fam) \ deadR \subseteq q.seen,
           q.op = "grant" => \A f \in q.fams :
              f \in Issued /\ Family(f) \ deadR \subseteq q.seenR /\ Family(f) \subseteq q.seenA,
           UNCHANGED <<fam, deadR, deadA, doomed>>
    PROVE  DeadInv'
<1>1. \A s \in Requests : req'[s] = IF s = r THEN q ELSE req[s]
  BY DEF LiveInv, Shapes
<1>2. Exclusive'
  BY <1>1 DEF DeadInv, Exclusive, Open
<1>3. Issued' = Issued /\ \A f : Family(f)' = Family(f)
  BY DEF Issued, Family
<1>4. Sweeps'
  BY <1>1, <1>3 DEF DeadInv, Sweeps
<1>. QED
  BY <1>2, <1>3, <1>4 DEF DeadInv, RevokedFamilyIsDead

\* New pairs come while nobody sweeps, into families that are alive.
LEMMA DeadInsert ==
    ASSUME LiveInv, DeadInv, NEW n \in Pairs, Fresh(n), NEW f \in Pairs, NEW stamped,
           Insert(n, f, stamped), f \notin doomed, doomed' = doomed,
           \A s \in Requests : req[s].op \notin {"family", "grant"},
           \A s \in Requests : req'[s] \in {req[s], Idle}
    PROVE  DeadInv'
<1>1. fam' = [fam EXCEPT ![n] = f] /\ deadR' = deadR /\ deadA' = deadA
  BY DEF Insert
<1>2. fam \in [Pairs -> {0} \cup Pairs] /\ fam[n] = 0 /\ f # 0
  BY PairAssumption DEF LiveInv, Shapes, Fresh, Issued, Pairs
<1>3. Issued' = Issued \cup {n} /\ fam'[n] = f /\ \A i \in Issued : fam'[i] = fam[i]
  BY <1>1, <1>2 DEF Issued
<1>4. Idle.op = "idle"
  BY DEF Idle
<1>5. Exclusive'
  BY <1>4 DEF DeadInv, Exclusive, Open
<1>6. Sweeps'
  BY <1>4 DEF Sweeps
<1>. QED
  BY <1>1, <1>3, <1>5, <1>6 DEF DeadInv, RevokedFamilyIsDead

\* A revocation commits: every row it saw is dead, and its families with them.
LEMMA DeadFinish ==
    ASSUME LiveInv, DeadInv, NEW r \in Requests, Open(r),
           NEW R, NEW A, NEW F, F \subseteq Issued,
           \A f \in F : Family(f) \ deadR \subseteq R /\ Family(f) \subseteq A,
           deadR' = deadR \cup R, deadA' = deadA \cup A, doomed' = doomed \cup F,
           req' = [req EXCEPT ![r] = Idle], fam' = fam
    PROVE  DeadInv'
<1>1. Idle.op = "idle"
  BY DEF Idle
<1>2. \A s \in Requests : req'[s].op \notin {"rotate", "family", "grant"}
  BY <1>1 DEF LiveInv, Shapes, DeadInv, Exclusive, Open
<1>3. Exclusive' /\ Sweeps'
  BY <1>2 DEF Exclusive, Sweeps, Open
<1>4. RevokedFamilyIsDead'
  BY DEF DeadInv, RevokedFamilyIsDead, Issued, Family
<1>. QED
  BY <1>3, <1>4 DEF DeadInv, Issued

\* Nobody else has a write transaction open when the rows are free.
LEMMA SerialFree ==
    ASSUME Serialised, NEW r \in Requests, NEW rows, Free(r, rows)
    PROVE  \A s \in Requests \ {r} : ~Open(s)
BY DEF Free

LEMMA StartFamilyDead ==
    ASSUME LiveInv, DeadInv, NEW r \in Requests, NEW i \in Issued, NEW held, NEW full,
           StartFamily(r, i, held, full), \A s \in Requests \ {r} : ~Open(s),
           UNCHANGED <<fam, deadR, deadA, doomed>>
    PROVE  DeadInv'
<1>. DEFINE q == [op |-> "family", fam |-> fam[i], held |-> held,
                  seen |-> Family(fam[i]) \ deadR, full |-> full]
<1>1. req' = [req EXCEPT ![r] = q]
  BY DEF StartFamily
<1>2. q.op = "family" /\ q.fam = fam[i] /\ q.seen = Family(fam[i]) \ deadR
  OBVIOUS
<1>3. fam[i] \in Issued
  BY DEF LiveInv, Shapes, Named, Issued
<1>. HIDE DEF q
<1>. QED
  BY <1>1, <1>2, <1>3, DeadQuiet

\* Every serialised step keeps the invariant.
LEMMA NextDead == Serialised /\ LiveInv /\ DeadInv /\ [Next]_vars => DeadInv'
<1>. SUFFICES ASSUME Serialised, LiveInv, DeadInv, [Next]_vars PROVE DeadInv'
  OBVIOUS
<1>i. Idle.op = "idle"
  BY DEF Idle
<1>k. ASSUME UNCHANGED <<fam, deadR, deadA, doomed, req>> PROVE DeadInv'
  BY <1>k DEF DeadInv, Exclusive, Sweeps, Open, RevokedFamilyIsDead, Issued, Family
<1>1. CASE Issuing
  <2>1. ASSUME NEW r \in Requests, NEW c \in Codes, ExchangeCode(r, c) PROVE DeadInv'
    <3>. DEFINE q == [op |-> "mint", code |-> c]
    <3>1. req' = [req EXCEPT ![r] = q] /\ UNCHANGED <<fam, deadR, deadA, doomed>>
      BY <2>1 DEF ExchangeCode, pairVars, ghosts
    <3>2. q.op = "mint"
      OBVIOUS
    <3>. HIDE DEF q
    <3>. QED
      BY <3>1, <3>2, DeadQuiet
  <2>2. ASSUME NEW r \in Requests, NEW n \in Pairs, MintForCode(r, n) \/ IssuePair(r, n)
        PROVE  DeadInv'
    <3>1. /\ Fresh(n) /\ doomed' = doomed /\ (Insert(n, n, TRUE) \/ Insert(n, n, FALSE))
          /\ req' = [req EXCEPT ![r] = Idle]
          /\ \A s \in Requests \ {r} : ~Open(s)
          /\ req[r].op \in {"assertion", "mint"}
      BY <2>2, SerialFree DEF MintForCode, IssuePair, ghosts
    <3>2. n \notin doomed
      BY <3>1 DEF DeadInv, Fresh
    <3>3. \A s \in Requests : req[s].op \notin {"family", "grant"}
      BY <3>1 DEF Open
    <3>4. \A s \in Requests : req'[s] \in {req[s], Idle}
      BY <3>1 DEF LiveInv, Shapes
    <3>. QED
      BY <3>1, <3>2, <3>3, <3>4, DeadInsert
  <2>3. ASSUME NEW r \in Requests, NEW c \in Codes, IssueCode(r, c) PROVE DeadInv'
    BY <2>3, <1>k DEF IssueCode, pairVars, ghosts
  <2>4. ASSUME NEW r \in Requests, VerifyAssertion(r) PROVE DeadInv'
    <3>. DEFINE q == [op |-> "assertion"]
    <3>1. req' = [req EXCEPT ![r] = q] /\ UNCHANGED <<fam, deadR, deadA, doomed>>
      BY <2>4 DEF VerifyAssertion, pairVars, ghosts
    <3>2. q.op = "assertion"
      OBVIOUS
    <3>. HIDE DEF q
    <3>. QED
      BY <3>1, <3>2, DeadQuiet
  <2>. QED
    BY <1>1, <2>1, <2>2, <2>3, <2>4 DEF Issuing
<1>2. CASE Refreshing
  <2>1. ASSUME NEW r \in Requests, NEW i \in Pairs, Refresh(r, i) PROVE DeadInv'
    <3>. DEFINE q == [op |-> "rotate", pair |-> i]
    <3>1. req' = [req EXCEPT ![r] = q] /\ UNCHANGED <<fam, deadR, deadA, doomed>>
      BY <2>1 DEF Refresh, pairVars, ghosts
    <3>2. q.op = "rotate" /\ \A s \in Requests \ {r} : ~Open(s)
      BY <2>1, SerialFree DEF Refresh
    <3>. HIDE DEF q
    <3>. QED
      BY <3>1, <3>2, DeadQuiet
  <2>2. ASSUME NEW r \in Requests, NEW n \in Pairs, Rotate(r, n) PROVE DeadInv'
    <3>. DEFINE i == req[r].pair
    <3>1. /\ Fresh(n) /\ doomed' = doomed /\ Insert(n, fam[i], i \in granted)
          /\ req' = [req EXCEPT ![r] = Idle] /\ req[r].op = "rotate"
      BY <2>2 DEF Rotate, ghosts
    <3>2. i \in Issued \ deadR /\ fam[i] \in Pairs
      BY <3>1 DEF LiveInv, Rotations, Shapes, Issued
    <3>3. fam[i] \notin doomed
      BY <3>2 DEF DeadInv, RevokedFamilyIsDead
    <3>4. \A s \in Requests : req[s].op \notin {"family", "grant"}
      BY <3>1 DEF DeadInv, Exclusive, Open
    <3>5. \A s \in Requests : req'[s] \in {req[s], Idle}
      BY <3>1 DEF LiveInv, Shapes
    <3>6. \E stamped : Insert(n, fam[i], stamped)
      BY <3>1
    <3>. HIDE DEF i
    <3>. QED
      BY <3>1, <3>2, <3>3, <3>4, <3>5, <3>6, DeadInsert
  <2>3. ASSUME NEW r \in Requests, NEW i \in Pairs, RefuseRefresh(r, i) PROVE DeadInv'
    BY <2>3, SerialFree, StartFamilyDead DEF RefuseRefresh, pairVars, ghosts
  <2>. QED
    BY <1>2, <2>1, <2>2, <2>3 DEF Refreshing
<1>3. CASE Revoking
  <2>1. ASSUME NEW r \in Requests, NEW i \in Pairs, RevokeRefresh(r, i) PROVE DeadInv'
    BY <2>1, SerialFree, StartFamilyDead DEF RevokeRefresh, pairVars, ghosts
  <2>2. ASSUME NEW r \in Requests, NEW i \in Pairs, RevokeAccess(r, i) PROVE DeadInv'
    BY <2>2 DEF RevokeAccess, ghosts, DeadInv, Exclusive, Sweeps, Open, RevokedFamilyIsDead,
                Issued, Family
  <2>3. ASSUME NEW r \in Requests, FinishFamily(r) PROVE DeadInv'
    <3>1. /\ req[r].op = "family" /\ Open(r)
          /\ deadR' = deadR \cup req[r].seen /\ deadA' = deadA \cup Family(req[r].fam)
          /\ doomed' = doomed \cup {req[r].fam}
          /\ req' = [req EXCEPT ![r] = Idle] /\ fam' = fam
      BY <2>3 DEF FinishFamily, Open
    <3>2. req[r].fam \in Issued /\ Family(req[r].fam) \ deadR \subseteq req[r].seen
      BY <3>1 DEF DeadInv, Sweeps
    <3>. DEFINE F == {req[r].fam}
                R == req[r].seen
                A == Family(req[r].fam)
    <3>3. F \subseteq Issued /\ \A f \in F : Family(f) \ deadR \subseteq R /\ Family(f) \subseteq A
      BY <3>2
    <3>4. deadR' = deadR \cup R /\ deadA' = deadA \cup A /\ doomed' = doomed \cup F
      BY <3>1
    <3>. HIDE DEF F, R, A
    <3>. QED
      BY <3>1, <3>3, <3>4, DeadFinish, ZenonT(60)
  <2>4. ASSUME NEW r \in Requests, FinishGrant(r) PROVE DeadInv'
    <3>1. /\ req[r].op = "grant" /\ Open(r)
          /\ deadR' = deadR \cup req[r].seenR /\ deadA' = deadA \cup req[r].seenA
          /\ doomed' = doomed \cup req[r].fams
          /\ req' = [req EXCEPT ![r] = Idle] /\ fam' = fam
      BY <2>4 DEF FinishGrant, Open
    <3>2. /\ req[r].fams \subseteq Issued
          /\ \A f \in req[r].fams : /\ Family(f) \ deadR \subseteq req[r].seenR
                                    /\ Family(f) \subseteq req[r].seenA
      BY <3>1 DEF DeadInv, Sweeps
    <3>. QED
      BY <3>1, <3>2, DeadFinish
  <2>5. ASSUME NEW r \in Requests, ContinueToGrant(r) PROVE DeadInv'
    <3>. DEFINE q == [op |-> "grant", held |-> req[r].held \cup req[r].seen, fams |-> {req[r].fam},
                      seenR |-> req[r].seen \cup (granted \ deadR),
                      seenA |-> Family(req[r].fam) \cup granted]
    <3>1. /\ req[r].op = "family" /\ req' = [req EXCEPT ![r] = q]
          /\ UNCHANGED <<fam, deadR, deadA, doomed>>
          /\ \A s \in Requests \ {r} : ~Open(s)
      BY <2>5, SerialFree DEF ContinueToGrant, pairVars, ghosts
    <3>2. req[r].fam \in Issued /\ Family(req[r].fam) \ deadR \subseteq req[r].seen
      BY <3>1 DEF DeadInv, Sweeps
    <3>3. /\ q.op = "grant" /\ q.fams = {req[r].fam}
          /\ req[r].seen \subseteq q.seenR /\ Family(req[r].fam) \subseteq q.seenA
      OBVIOUS
    <3>. HIDE DEF q
    <3>. QED
      BY <3>1, <3>2, <3>3, DeadQuiet
  <2>6. ASSUME NEW r \in Requests, StartGrant(r) PROVE DeadInv'
    <3>. DEFINE q == [op |-> "grant", held |-> {}, fams |-> {}, seenR |-> granted \ deadR,
                      seenA |-> granted]
    <3>1. /\ req' = [req EXCEPT ![r] = q] /\ UNCHANGED <<fam, deadR, deadA, doomed>>
          /\ \A s \in Requests \ {r} : ~Open(s)
      BY <2>6, SerialFree DEF StartGrant, pairVars, ghosts
    <3>2. q.op = "grant" /\ q.fams = {}
      OBVIOUS
    <3>. HIDE DEF q
    <3>. QED
      BY <3>1, <3>2, DeadQuiet
  <2>. QED
    BY <1>3, <2>1, <2>2, <2>3, <2>4, <2>5, <2>6 DEF Revoking
<1>4. CASE Environment
  <2>1. ASSUME NEW r \in Requests, Abandon(r) PROVE DeadInv'
    BY <2>1, <1>i, DeadQuiet DEF Abandon, pairVars, ghosts
  <2>. QED
    BY <1>4, <1>k, <2>1 DEF Environment, ToggleActor, ToggleClient, pairVars, ghosts
<1>5. CASE UNCHANGED vars
  BY <1>5, <1>k DEF vars, pairVars, ghosts
<1>. QED
  BY <1>1, <1>2, <1>3, <1>4, <1>5 DEF Next

\* On SQLite a committed family revocation is complete: no token of the family
\* is live, and no rotation that had passed its checks adds one afterwards.
THEOREM SerialFamilyDies == Spec => []SerialFamilyIsDead
<1>1. Init => DeadInv
  <2>1. ASSUME Init PROVE \A r \in Requests : req[r].op = "idle"
    BY <2>1 DEF Init, Idle
  <2>2. Init => Issued = {} /\ doomed = {}
    BY DEF Init, Issued
  <2>. QED
    BY <2>1, <2>2 DEF DeadInv, Exclusive, Sweeps, Open, RevokedFamilyIsDead
<1>2. ASSUME LiveInv, Serialised => DeadInv, [Next]_vars PROVE (Serialised => DeadInv)'
  <2>1. Serialised' = Serialised
    BY <1>2 DEF Next, vars
  <2>. QED
    BY <1>2, <2>1, NextDead
<1>3. (Serialised => DeadInv) => SerialFamilyIsDead
  BY DEF DeadInv, SerialFamilyIsDead
<1>. QED
  BY <1>1, <1>2, <1>3, AlwaysLive, PTL DEF Spec

=============================================================================
