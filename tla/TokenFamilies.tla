---------------------------- MODULE TokenFamilies ----------------------------
(***************************************************************************)
(* Opaque tokens of one actor: authorization codes, access/refresh pairs,  *)
(* refresh rotation with reuse detection, and the family and grant         *)
(* revocations (auth/services/token_service.py, authorize_service.py,      *)
(* oauth_revocation_service.py, shared/oauth_grant_revocation.py).         *)
(*                                                                         *)
(* A pair is an access token and the refresh token issued with it; a       *)
(* family is named by the first pair of its rotation chain.  Expired       *)
(* tokens are tokens nobody presents any more: no verb does anything with  *)
(* one but refuse it.                                                      *)
(*                                                                         *)
(* SELECT ... FOR UPDATE and UPDATE lock refresh rows to the end of their  *)
(* transaction.  On PostgreSQL (READ COMMITTED) an UPDATE works on the     *)
(* rows its statement saw when it started, waiting for those another       *)
(* transaction has locked, so a revocation is two steps: Start takes the   *)
(* rows, Finish writes them once they are free.  On SQLite (Serialised)    *)
(* write transactions exclude each other.                                  *)
(***************************************************************************)
EXTENDS Naturals, FiniteSets

CONSTANTS
    NumPairs,    \* bound: token pairs ever issued
    Codes,       \* authorization codes minted from the actor's consent grant
    Requests     \* bound: requests in flight at once

Pairs == 1 .. NumPairs

ASSUME PairAssumption == NumPairs \in Nat

VARIABLES
    Serialised,  \* the deployment's database: SQLite, or PostgreSQL (FALSE)
    code,      \* authorization_codes: "none", "issued", "consumed"
    grant,     \* oauth_client_grants.status of the consent grant
    mayAct,    \* the actor (and its owner) is active
    client,    \* the issuing OAuth client is active and approved
    fam,       \* token_family_id of the pair, 0 when not issued
    granted,   \* pairs stamped with the client and the consent grant
    consumed,  \* pairs whose refresh token has consumed_at
    deadR,     \* pairs whose refresh token has revoked_at
    deadA,     \* pairs whose access token has revoked_at
    req,       \* each request in flight
    minted,    \* history: pairs issued for the code
    doomed     \* history: families a family revocation was committed for

pairVars == <<fam, granted, consumed, deadR, deadA>>
gateVars == <<grant, mayAct, client>>
ghosts   == <<minted, doomed>>
vars     == <<Serialised, code, gateVars, pairVars, req, ghosts>>

Issued    == {i \in Pairs : fam[i] # 0}
Family(f) == {i \in Pairs : fam[i] = f}
Idle      == [op |-> "idle"]
InFlight  == [op : {"mint"}, code : Codes]
       \cup [op : {"assertion"}]
       \cup [op : {"rotate"}, pair : Pairs]
       \cup [op : {"family"}, fam : Pairs, held : SUBSET Pairs, seen : SUBSET Pairs, full : BOOLEAN]
       \cup [op : {"grant"}, held : SUBSET Pairs, fams : SUBSET Pairs,
             seenR : SUBSET Pairs, seenA : SUBSET Pairs]

Init ==
    /\ Serialised \in BOOLEAN
    /\ code     = [c \in Codes |-> "none"]
    /\ grant    = "active"
    /\ mayAct   = TRUE
    /\ client   = TRUE
    /\ fam      = [i \in Pairs |-> 0]
    /\ granted  = {}
    /\ consumed = {}
    /\ deadR    = {}
    /\ deadA    = {}
    /\ req      = [r \in Requests |-> Idle]
    /\ minted   = [c \in Codes |-> 0]
    /\ doomed   = {}

-----------------------------------------------------------------------------
(* Locks *)

\* Refresh rows a request has locked, and whether it has a write transaction open.
Locked(r) == CASE req[r].op = "rotate"              -> {req[r].pair}
               [] req[r].op \in {"family", "grant"} -> req[r].held
               [] OTHER                             -> {}
Open(r)   == req[r].op \in {"rotate", "family", "grant"}

\* No other write transaction on SQLite; the rows free on PostgreSQL.
Free(r, rows) ==
    IF Serialised THEN \A s \in Requests \ {r} : ~Open(s)
    ELSE \A s \in Requests \ {r} : Locked(s) \cap rows = {}

\* A revocation under way has the active grant's row, which a mint or rotation
\* of a stamped pair also writes (touch_last_used).
GrantFree(r) == grant = "active" => \A s \in Requests \ {r} : req[s].op # "grant"

-----------------------------------------------------------------------------
(* Issuing *)

\* The next pair id.
Fresh(n) == n \notin Issued /\ \A i \in Pairs : i < n => i \in Issued

\* The rows of a new pair n of family f, and whether the grant is stamped.
Insert(n, f, stamped) ==
    /\ fam' = [fam EXCEPT ![n] = f]
    /\ granted' = IF stamped THEN granted \cup {n} ELSE granted
    /\ UNCHANGED <<deadR, deadA>>

\* _issue_authorization_code, after the consent was granted.
IssueCode(r, c) ==
    /\ req[r] = Idle
    /\ Free(r, {})
    /\ code[c] = "none"
    /\ code' = [code EXCEPT ![c] = "issued"]
    /\ UNCHANGED <<gateVars, pairVars, req, ghosts>>

\* Mutant: the consumed check is missing.
ExchangeConsumed(r, c) ==
    /\ req[r] = Idle
    /\ Free(r, {})
    /\ code[c] \in {"issued", "consumed"}
    /\ grant = "active" /\ client /\ mayAct
    /\ code' = [code EXCEPT ![c] = "consumed"]
    /\ req' = [req EXCEPT ![r] = [op |-> "mint", code |-> c]]
    /\ UNCHANGED <<gateVars, pairVars, ghosts>>

\* exchange_code: one transaction locks, checks and consumes the code (a failed
\* check rolls the consumption back); the pair is minted in another one.
ExchangeCode(r, c) ==
    /\ req[r] = Idle
    /\ Free(r, {})
    /\ code[c] = "issued"
    /\ grant = "active" /\ client /\ mayAct
    /\ code' = [code EXCEPT ![c] = "consumed"]
    /\ req' = [req EXCEPT ![r] = [op |-> "mint", code |-> c]]
    /\ UNCHANGED <<gateVars, pairVars, ghosts>>

\* issue_pair for the exchanged code: no gate is looked at again.
MintForCode(r, n) ==
    /\ req[r].op = "mint"
    /\ Free(r, {}) /\ GrantFree(r)
    /\ Fresh(n)
    /\ Insert(n, n, TRUE)
    /\ minted' = [minted EXCEPT ![req[r].code] = @ + 1]
    /\ req' = [req EXCEPT ![r] = Idle]
    /\ UNCHANGED <<code, gateVars, consumed, doomed>>

\* A JWT-bearer assertion of the agent is verified in one transaction; its pair
\* comes in another, with no client and no grant.
VerifyAssertion(r) ==
    /\ req[r] = Idle
    /\ Free(r, {})
    /\ mayAct
    /\ req' = [req EXCEPT ![r] = [op |-> "assertion"]]
    /\ UNCHANGED <<code, gateVars, pairVars, ghosts>>

IssuePair(r, n) ==
    /\ req[r].op = "assertion"
    /\ Free(r, {})
    /\ Fresh(n)
    /\ Insert(n, n, FALSE)
    /\ req' = [req EXCEPT ![r] = Idle]
    /\ UNCHANGED <<code, gateVars, consumed, ghosts>>

-----------------------------------------------------------------------------
(* refresh *)

\* The gates of a rotation: the issuing client, the grant, the actor.
MayRotate(i) ==
    /\ i \in granted => client /\ grant = "active"
    /\ mayAct

\* Mutant: SELECT without FOR UPDATE, the row may be locked by a rotation.
RefreshUnlocked(r, i) ==
    /\ req[r] = Idle
    /\ Serialised => Free(r, {i})
    /\ i \in Issued \ (deadR \cup consumed)
    /\ MayRotate(i)
    /\ req' = [req EXCEPT ![r] = [op |-> "rotate", pair |-> i]]
    /\ UNCHANGED <<code, gateVars, pairVars, ghosts>>

\* refresh of a live token, up to its writes: the row is locked and checked.
Refresh(r, i) ==
    /\ req[r] = Idle
    /\ Free(r, {i})
    /\ i \in Issued \ (deadR \cup consumed)
    /\ MayRotate(i)
    /\ req' = [req EXCEPT ![r] = [op |-> "rotate", pair |-> i]]
    /\ UNCHANGED <<code, gateVars, pairVars, ghosts>>

\* Mutant: the new pair is not stamped with the client and the grant.
RotateUnstamped(r, n) ==
    /\ req[r].op = "rotate"
    /\ Fresh(n)
    /\ LET i == req[r].pair
       IN  /\ i \in granted => GrantFree(r)
           /\ Insert(n, fam[i], FALSE)
           /\ consumed' = consumed \cup {i}
    /\ req' = [req EXCEPT ![r] = Idle]
    /\ UNCHANGED <<code, gateVars, ghosts>>

\* refresh, the writes: a new pair in the family, the old token consumed.
Rotate(r, n) ==
    /\ req[r].op = "rotate"
    /\ Fresh(n)
    /\ LET i == req[r].pair
       IN  /\ i \in granted => GrantFree(r)
           /\ Insert(n, fam[i], i \in granted)
           /\ consumed' = consumed \cup {i}
    /\ req' = [req EXCEPT ![r] = Idle]
    /\ UNCHANGED <<code, gateVars, ghosts>>

\* A family revocation starts: its first UPDATE sees these refresh rows.  With
\* full, the grant's revocation follows in the same transaction.
StartFamily(r, i, held, full) ==
    req' = [req EXCEPT ![r] = [op |-> "family", fam |-> fam[i], held |-> held,
                               seen |-> Family(fam[i]) \ deadR, full |-> full]]

\* refresh of a consumed token (reuse), or by another client than the issuing
\* one: the family is revoked and the transaction commits before the refusal.
RefuseRefresh(r, i) ==
    /\ req[r] = Idle
    /\ Free(r, {i})
    /\ i \in Issued \ deadR
    /\ i \in granted => client
    /\ i \in consumed \/ i \in granted
    /\ StartFamily(r, i, {i}, FALSE)
    /\ UNCHANGED <<code, gateVars, pairVars, ghosts>>

-----------------------------------------------------------------------------
(* Revocation *)

\* revoke of a refresh token by its actor, and the RFC 7009 arm of a client,
\* which also revokes the grant (full).  The row is read without a lock.
RevokeRefresh(r, i) ==
    /\ req[r] = Idle
    /\ Serialised => Free(r, {})
    /\ i \in Issued \ deadR
    /\ \/ StartFamily(r, i, {}, FALSE)
       \/ i \in granted /\ StartFamily(r, i, {}, TRUE)
    /\ UNCHANGED <<code, gateVars, pairVars, ghosts>>

\* Mutant: the second UPDATE, of the access rows, is missing.
FinishFamilyRefreshOnly(r) ==
    /\ req[r].op = "family" /\ ~req[r].full
    /\ Free(r, req[r].seen)
    /\ deadR'  = deadR \cup req[r].seen
    /\ doomed' = doomed \cup {req[r].fam}
    /\ req' = [req EXCEPT ![r] = Idle]
    /\ UNCHANGED <<code, gateVars, fam, granted, consumed, deadA, minted>>

\* The rows seen are free: the refresh rows are revoked, then (a statement of
\* its own) the access rows of the family.
FinishFamily(r) ==
    /\ req[r].op = "family" /\ ~req[r].full
    /\ Free(r, req[r].seen)
    /\ deadR'  = deadR \cup req[r].seen
    /\ deadA'  = deadA \cup Family(req[r].fam)
    /\ doomed' = doomed \cup {req[r].fam}
    /\ req' = [req EXCEPT ![r] = Idle]
    /\ UNCHANGED <<code, gateVars, fam, granted, consumed, minted>>

\* The full disconnect goes on to the grant, keeping the family's rows locked.
ContinueToGrant(r) ==
    /\ req[r].op = "family" /\ req[r].full
    /\ Free(r, req[r].seen) /\ GrantFree(r)
    /\ req' = [req EXCEPT ![r] =
                  [op |-> "grant", held |-> req[r].held \cup req[r].seen, fams |-> {req[r].fam},
                   seenR |-> req[r].seen \cup (granted \ deadR),
                   seenA |-> Family(req[r].fam) \cup granted]]
    /\ UNCHANGED <<code, gateVars, pairVars, ghosts>>

\* revoke of one access token: that token alone.
RevokeAccess(r, i) ==
    /\ req[r] = Idle
    /\ Free(r, {})
    /\ i \in Issued \ deadA
    /\ deadA' = deadA \cup {i}
    /\ UNCHANGED <<code, gateVars, fam, granted, consumed, deadR, req, ghosts>>

\* revoke_grant_and_sweep_tokens, by the user or with the agent: the sweeps
\* see the rows of their start.
StartGrant(r) ==
    /\ req[r] = Idle
    /\ Serialised => Free(r, {})
    /\ GrantFree(r)
    /\ req' = [req EXCEPT ![r] = [op |-> "grant", held |-> {}, fams |-> {},
                                  seenR |-> granted \ deadR, seenA |-> granted]]
    /\ UNCHANGED <<code, gateVars, pairVars, ghosts>>

FinishGrant(r) ==
    /\ req[r].op = "grant"
    /\ Free(r, req[r].seenR)
    /\ grant'  = "revoked"
    /\ deadA'  = deadA \cup req[r].seenA
    /\ deadR'  = deadR \cup req[r].seenR
    /\ doomed' = doomed \cup req[r].fams
    /\ req' = [req EXCEPT ![r] = Idle]
    /\ UNCHANGED <<code, mayAct, client, fam, granted, consumed, minted>>

-----------------------------------------------------------------------------
(* Environment: lifecycle of the actor and the client; failures *)

\* The agent or its owner is disabled or enabled again.
ToggleActor ==
    /\ Serialised => \A r \in Requests : ~Open(r)
    /\ mayAct' = ~mayAct
    /\ UNCHANGED <<code, grant, client, pairVars, req, ghosts>>

\* The OAuth client is deactivated or activated again.
ToggleClient ==
    /\ Serialised => \A r \in Requests : ~Open(r)
    /\ client' = ~client
    /\ UNCHANGED <<code, grant, mayAct, pairVars, req, ghosts>>

\* A request that fails rolls its transaction back.
Abandon(r) ==
    /\ req[r] # Idle
    /\ req' = [req EXCEPT ![r] = Idle]
    /\ UNCHANGED <<code, gateVars, pairVars, ghosts>>

-----------------------------------------------------------------------------

Issuing ==
    \E r \in Requests :
        \/ \E c \in Codes : IssueCode(r, c) \/ ExchangeCode(r, c)
        \/ VerifyAssertion(r)
        \/ \E n \in Pairs : MintForCode(r, n) \/ IssuePair(r, n)

Refreshing ==
    \E r \in Requests, i \in Pairs : Refresh(r, i) \/ Rotate(r, i) \/ RefuseRefresh(r, i)

Revoking ==
    \E r \in Requests :
        \/ \E i \in Pairs : RevokeRefresh(r, i) \/ RevokeAccess(r, i)
        \/ FinishFamily(r) \/ ContinueToGrant(r) \/ StartGrant(r) \/ FinishGrant(r)

Environment == ToggleActor \/ ToggleClient \/ \E r \in Requests : Abandon(r)

Next ==
    /\ Issuing \/ Refreshing \/ Revoking \/ Environment
    /\ UNCHANGED Serialised

Spec == Init /\ [][Next]_vars

-----------------------------------------------------------------------------
(* Resolution and properties *)

\* resolve_access_token: the token row and the live client, grant and actor.
Resolves(i) ==
    /\ i \in Issued \ deadA
    /\ i \in granted => client /\ grant = "active"
    /\ mayAct

\* Rotation keeps one live refresh token per family, however many refreshes of
\* the same token, revocations and failures overlap (FOR UPDATE in refresh).
OneLiveRefresh ==
    \A i, j \in Issued \ (deadR \cup consumed) : fam[i] = fam[j] => i = j

\* An authorization code buys one token pair at most, although the pair is
\* minted in a later transaction than the one that consumes the code.
CodeMintsOnce == \A c \in Codes : minted[c] <= 1

\* "They never resolve": of the chains that began with an exchanged code, also
\* those an exchange or rotation carried past the sweep, nothing resolves once
\* the grant is revoked (the lineage columns are copied on every rotation).
RevokedGrantResolvesNothing ==
    grant = "revoked" => \A i \in Issued : fam[i] \in granted => ~Resolves(i)

\* "the entire token family is revoked": once a family revocation has
\* committed, no token of the family is live, and none appears later.
RevokedFamilyIsDead ==
    \A i \in Issued : fam[i] \in doomed => i \in deadR /\ i \in deadA

\* On SQLite the same holds: BEGIN IMMEDIATE keeps a rotation that passed its
\* checks from inserting its pair after the sweep of its family.
SerialFamilyIsDead == Serialised => RevokedFamilyIsDead

=============================================================================
