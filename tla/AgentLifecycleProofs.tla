------------------------ MODULE AgentLifecycleProofs ------------------------
(***************************************************************************)
(* The consent-grant invariants of AgentLifecycle and the finality of a    *)
(* denial, for every set of users, clients, credentials and requests and   *)
(* on both databases.  RequestsFit is the strengthening: a status write    *)
(* that is still in flight was decided on an agent that had been active,   *)
(* so the row it overwrites is neither pending nor rejected.               *)
(* ConsenterNamed is what a claim needs: an unowned agent has no active    *)
(* grant.                                                                  *)
(***************************************************************************)
EXTENDS AgentLifecycle, TLAPS

\* In-flight enable and disable requests were begun on a row past its decision.
RequestsFit ==
    \A r \in Requests : req[r].verb \in {"disable", "enable"}
        => status \notin {"absent", "pending", "rejected"}

\* An active grant has a consenting user, so an unowned agent has no active grant.
ConsenterNamed == \A g \in Grants : grant[g] = "active" => guser[g] \in Users

\* The inductive invariant: types, the grant properties and RequestsFit.
GrantInv ==
    /\ TypeOK
    /\ GrantConsenterIsOwner
    /\ OneActiveGrantPerPair
    /\ LiveGrantsOnLiveAgents
    /\ RequestsFit
    /\ ConsenterNamed

-----------------------------------------------------------------------------

\* The initial state has no grant and no request.
LEMMA InitGrantInv == Init => GrantInv
<1>. SUFFICES ASSUME Init PROVE GrantInv
  OBVIOUS
<1>1. TypeOK
  BY DEF Init, TypeOK, Statuses
<1>2. \A g \in Grants : grant[g] # "active"
  BY DEF Init
<1>3. RequestsFit
  BY DEF Init, RequestsFit, Idle
<1>. QED
  BY <1>1, <1>2, <1>3 DEF GrantInv, GrantConsenterIsOwner, OneActiveGrantPerPair,
     LiveGrantsOnLiveAgents, ConsenterNamed

\* Revoking every active grant leaves none active.
LEMMA NoneActive ==
    ASSUME TypeOK, RevokeActiveGrants
    PROVE  /\ grant' \in [Grants -> {"none", "active", "revoked"}]
           /\ \A g \in Grants : grant'[g] # "active"
           /\ gclient' = gclient /\ guser' = guser
BY DEF TypeOK, RevokeActiveGrants, Revoked

\* Without active grants the three grant properties hold.
LEMMA Vacuous ==
    ASSUME \A g \in Grants : grant'[g] # "active"
    PROVE  /\ GrantConsenterIsOwner'
           /\ OneActiveGrantPerPair'
           /\ LiveGrantsOnLiveAgents'
           /\ ConsenterNamed'
BY DEF ConsenterNamed, GrantConsenterIsOwner, OneActiveGrantPerPair, LiveGrantsOnLiveAgents

\* The verbs that lock the agent row.
LEMMA LockedGrantInv == GrantInv /\ LockedVerbs => GrantInv'
<1>. SUFFICES ASSUME GrantInv, LockedVerbs PROVE GrantInv'
  OBVIOUS
<1>. USE DEF GrantInv
<1>1. ASSUME NEW u \in Users, NEW s \in {"active", "pending"}, Create(u, s) PROVE GrantInv'
  <2>1. TypeOK'
    BY <1>1 DEF Create, TypeOK, Statuses, grantVars, bindingVars
  <2>2. \A g \in Grants : grant'[g] # "active"
    BY <1>1 DEF Create, LiveGrantsOnLiveAgents, grantVars
  <2>3. RequestsFit'
    BY <1>1 DEF Create, RequestsFit
  <2>. QED
    BY <2>1, <2>2, <2>3, Vacuous
<1>2. ASSUME NEW token \in BOOLEAN, NEW asked \in BOOLEAN, Register(token, asked) PROVE GrantInv'
  <2>1. TypeOK'
    BY <1>2 DEF Register, TypeOK, Statuses, grantVars, bindingVars
  <2>2. \A g \in Grants : grant'[g] # "active"
    BY <1>2 DEF Register, LiveGrantsOnLiveAgents, grantVars
  <2>3. RequestsFit'
    BY <1>2 DEF Register, RequestsFit
  <2>. QED
    BY <2>1, <2>2, <2>3, Vacuous
<1>3. ASSUME NEW u \in Users, Approve(u) PROVE GrantInv'
  <2>1. TypeOK'
    BY <1>3 DEF Approve, TypeOK, Statuses, grantVars, bindingVars
  <2>2. \A g \in Grants : grant'[g] # "active"
    BY <1>3 DEF Approve, LiveGrantsOnLiveAgents, grantVars
  <2>3. RequestsFit'
    BY <1>3 DEF Approve, RequestsFit
  <2>. QED
    BY <2>1, <2>2, <2>3, Vacuous
<1>4. ASSUME NEW u \in Users, Deny(u) PROVE GrantInv'
  <2>1. TypeOK'
    BY <1>4 DEF Deny, TypeOK, Statuses, grantVars, bindingVars
  <2>2. \A g \in Grants : grant'[g] # "active"
    BY <1>4 DEF Deny, LiveGrantsOnLiveAgents, grantVars
  <2>3. RequestsFit'
    BY <1>4 DEF Deny, RequestsFit
  <2>. QED
    BY <2>1, <2>2, <2>3, Vacuous
<1>5. ASSUME NEW u \in Users, Claim(u) PROVE GrantInv'
  <2>1. TypeOK'
    BY <1>5 DEF Claim, TypeOK, grantVars, bindingVars
  <2>2. \A g \in Grants : grant'[g] # "active"
    BY <1>5, OwnerAssumption DEF Claim, Callers, GrantConsenterIsOwner, ConsenterNamed, grantVars
  <2>3. RequestsFit'
    BY <1>5 DEF Claim, RequestsFit
  <2>. QED
    BY <2>1, <2>2, <2>3, Vacuous
<1>6. ASSUME NEW u \in Users, NEW to \in Users \cup {NoOwner}, NEW refs \in SUBSET Creds,
             Transfer(u, to, refs)
      PROVE  GrantInv'
  <2>1. TypeOK'
    BY <1>6, NoneActive DEF Transfer, SuspendForeign, TypeOK
  <2>2. \A g \in Grants : grant'[g] # "active"
    BY <1>6, NoneActive DEF Transfer
  <2>3. RequestsFit'
    BY <1>6 DEF Transfer, RequestsFit
  <2>. QED
    BY <2>1, <2>2, <2>3, Vacuous
<1>. QED
  BY <1>1, <1>2, <1>3, <1>4, <1>5, <1>6 DEF LockedVerbs

\* A row that keeps its grants, or loses them, in a state where every grant
\* that is still active sits on an agent that stays active or disabled.
LEMMA KeptGrants ==
    ASSUME GrantInv, UNCHANGED <<owner, gclient, guser>>, status' \in {"active", "disabled"},
           \A g \in Grants : grant'[g] = "active" => grant[g] = "active"
    PROVE  /\ GrantConsenterIsOwner'
           /\ OneActiveGrantPerPair'
           /\ LiveGrantsOnLiveAgents'
           /\ ConsenterNamed'
BY DEF GrantInv, GrantConsenterIsOwner, OneActiveGrantPerPair, LiveGrantsOnLiveAgents,
       ConsenterNamed

\* A step that touches neither the row's owner and status nor the grants.
LEMMA SameGrants ==
    ASSUME GrantInv, UNCHANGED <<status, owner, grantVars>>
    PROVE  /\ GrantConsenterIsOwner'
           /\ OneActiveGrantPerPair'
           /\ LiveGrantsOnLiveAgents'
           /\ ConsenterNamed'
BY DEF GrantInv, GrantConsenterIsOwner, OneActiveGrantPerPair, LiveGrantsOnLiveAgents,
       ConsenterNamed, grantVars

\* A request that leaves or takes up a verb other than enable and disable, on
\* a status that RequestsFit admits.
LEMMA FitAfter ==
    ASSUME GrantInv, NEW r \in Requests, NEW q, req' = [req EXCEPT ![r] = q],
           q.verb \in {"disable", "enable"} => status' \notin {"absent", "pending", "rejected"},
           \/ status' = status
           \/ status' \notin {"absent", "pending", "rejected"}
    PROVE  RequestsFit'
BY DEF GrantInv, TypeOK, RequestsFit

\* The sweep of an archive keeps the grant properties.
LEMMA SweptGrants ==
    ASSUME TypeOK, ArchiveAndSweep, UNCHANGED <<owner, claim>>,
           req' \in [Requests -> {Idle} \cup Pending]
    PROVE  TypeOK' /\ status' = "archived" /\ \A g \in Grants : grant'[g] # "active"
BY NoneActive DEF ArchiveAndSweep, NoBindings, TypeOK, Statuses

\* The verbs that check the row without locking it, and purge.
LEMMA UnlockedGrantInv == GrantInv /\ UnlockedVerbs => GrantInv'
<1>. SUFFICES ASSUME GrantInv, NEW r \in Requests,
                     \/ \E verb \in Transactions, u \in Users : Begin(r, verb, u)
                     \/ CommitDisable(r) \/ CommitEnable(r) \/ CommitArchive(r)
                     \/ \E some \in BOOLEAN : CommitPermissions(r, some)
                     \/ \E u \in Users : PurgeArchive(r, u)
                     \/ PurgeDelete(r) \/ Abandon(r)
              PROVE  GrantInv'
  BY DEF UnlockedVerbs
<1>t. TypeOK
  BY DEF GrantInv
<1>i. Idle.verb = "idle" /\ [req EXCEPT ![r] = Idle] \in [Requests -> {Idle} \cup Pending]
  BY <1>t DEF Idle, TypeOK
<1>1. ASSUME NEW verb \in Transactions, NEW u \in Users, Begin(r, verb, u) PROVE GrantInv'
  <2>. DEFINE q == [verb |-> verb]
  <2>1. q \in Pending /\ q.verb = verb
    BY DEF Pending
  <2>2. TypeOK'
    BY <1>t, <1>1, <2>1 DEF Begin, TypeOK, agentVars, grantVars, bindingVars
  <2>3. RequestsFit'
    <3>1. q.verb \in {"disable", "enable"} => status' \notin {"absent", "pending", "rejected"}
      BY <1>1, <2>1 DEF Begin, From, agentVars
    <3>. QED
      BY <1>1, <3>1, FitAfter DEF Begin, agentVars
  <2>4. UNCHANGED <<status, owner, grantVars>>
    BY <1>1 DEF Begin, agentVars
  <2>. QED
    BY <2>2, <2>3, <2>4, SameGrants DEF GrantInv
<1>2. CASE CommitDisable(r) \/ CommitEnable(r)
  <2>1. TypeOK'
    BY <1>t, <1>i, <1>2 DEF CommitDisable, CommitEnable, UpdateStatus, TypeOK, Statuses, Row, grantVars, bindingVars
  <2>2. status' = status \/ status' \in {"active", "disabled"}
    BY <1>2 DEF CommitDisable, CommitEnable, UpdateStatus
  <2>3. RequestsFit'
    BY <1>i, <1>2, <2>2, FitAfter DEF CommitDisable, CommitEnable, UpdateStatus
  <2>4. CASE status' = status
    BY <1>2, <2>1, <2>3, <2>4, SameGrants DEF CommitDisable, CommitEnable, UpdateStatus, GrantInv
  <2>5. CASE status' \in {"active", "disabled"}
    BY <1>2, <2>1, <2>3, <2>5, KeptGrants DEF CommitDisable, CommitEnable, UpdateStatus, GrantInv, grantVars
  <2>. QED
    BY <2>2, <2>4, <2>5
<1>3. CASE CommitArchive(r)
  <2>1. req' = [req EXCEPT ![r] = Idle] /\ UNCHANGED <<owner, claim>>
    BY <1>3 DEF CommitArchive
  <2>2. CASE status \in Row
    <3>1. TypeOK' /\ status' = "archived" /\ \A g \in Grants : grant'[g] # "active"
      BY <1>t, <1>i, <1>3, <2>1, <2>2, SweptGrants DEF CommitArchive
    <3>2. RequestsFit'
      BY <1>i, <2>1, <3>1, FitAfter
    <3>. QED
      BY <3>1, <3>2, Vacuous DEF GrantInv
  <2>3. CASE status \notin Row
    <3>1. UNCHANGED <<status, perms, grantVars, bindingVars>>
      BY <1>3, <2>3 DEF CommitArchive
    <3>2. TypeOK'
      BY <1>t, <1>i, <2>1, <3>1 DEF TypeOK, grantVars, bindingVars
    <3>3. RequestsFit'
      BY <1>i, <2>1, <3>1, FitAfter
    <3>. QED
      BY <2>1, <3>1, <3>2, <3>3, SameGrants DEF GrantInv
  <2>. QED
    BY <2>2, <2>3
<1>4. ASSUME NEW some \in BOOLEAN, CommitPermissions(r, some) PROVE GrantInv'
  <2>1. TypeOK'
    BY <1>t, <1>i, <1>4 DEF CommitPermissions, TypeOK, grantVars, bindingVars
  <2>2. RequestsFit'
    BY <1>i, <1>4, FitAfter DEF CommitPermissions
  <2>. QED
    BY <1>4, <2>1, <2>2, SameGrants DEF CommitPermissions, GrantInv
<1>5. ASSUME NEW u \in Users, PurgeArchive(r, u) PROVE GrantInv'
  <2>. DEFINE q == [verb |-> "purge", by |-> u]
  <2>1. q \in Pending /\ q.verb = "purge"
    BY DEF Pending
  <2>2. req' = [req EXCEPT ![r] = q] /\ UNCHANGED <<owner, claim>>
    BY <1>5 DEF PurgeArchive
  <2>3. req' \in [Requests -> {Idle} \cup Pending]
    BY <1>t, <2>1, <2>2 DEF TypeOK
  <2>4. CASE status # "archived"
    <3>1. TypeOK' /\ status' = "archived" /\ \A g \in Grants : grant'[g] # "active"
      BY <1>t, <1>5, <2>2, <2>3, <2>4, SweptGrants DEF PurgeArchive
    <3>2. RequestsFit'
      BY <2>1, <2>2, <3>1, FitAfter
    <3>. QED
      BY <3>1, <3>2, Vacuous DEF GrantInv
  <2>5. CASE status = "archived"
    <3>1. UNCHANGED <<status, perms, grantVars, bindingVars>>
      BY <1>5, <2>5 DEF PurgeArchive
    <3>2. TypeOK'
      BY <1>t, <2>2, <2>3, <3>1 DEF TypeOK, grantVars, bindingVars
    <3>3. RequestsFit'
      BY <2>1, <2>2, <3>1, FitAfter
    <3>. QED
      BY <2>2, <3>1, <3>2, <3>3, SameGrants DEF GrantInv
  <2>. QED
    BY <2>4, <2>5
<1>6. CASE PurgeDelete(r)
  <2>1. /\ req' = [req EXCEPT ![r] = Idle]
        /\ UNCHANGED <<owner, claim, gclient, guser>>
    BY <1>6 DEF PurgeDelete
  <2>2. CASE LoadOwned(req[r].by)
    <3>1. /\ status' = "purged" /\ perms' = FALSE /\ NoBindings
          /\ grant' = [g \in Grants |-> "none"]
      BY <1>6, <2>2 DEF PurgeDelete
    <3>2. TypeOK'
      BY <1>t, <1>i, <2>1, <3>1 DEF TypeOK, NoBindings, Statuses
    <3>3. RequestsFit'
      BY <1>i, <2>1, <3>1, FitAfter
    <3>. QED
      BY <3>1, <3>2, <3>3, Vacuous DEF GrantInv
  <2>3. CASE ~LoadOwned(req[r].by)
    <3>1. UNCHANGED <<status, perms, bindingVars, grant>>
      BY <1>6, <2>3 DEF PurgeDelete
    <3>2. TypeOK'
      BY <1>t, <1>i, <2>1, <3>1 DEF TypeOK, bindingVars
    <3>3. RequestsFit'
      BY <1>i, <2>1, <3>1, FitAfter
    <3>. QED
      BY <2>1, <3>1, <3>2, <3>3, SameGrants DEF GrantInv, grantVars
  <2>. QED
    BY <2>2, <2>3
<1>7. CASE Abandon(r)
  <2>1. TypeOK'
    BY <1>t, <1>i, <1>7 DEF Abandon, TypeOK, agentVars, grantVars, bindingVars
  <2>2. RequestsFit'
    BY <1>i, <1>7, FitAfter DEF Abandon, agentVars
  <2>. QED
    BY <1>7, <2>1, <2>2, SameGrants DEF Abandon, agentVars, GrantInv
<1>. QED
  BY <1>1, <1>2, <1>3, <1>4, <1>5, <1>6, <1>7

\* Consent and its revocation.
LEMMA GrantVerbsInv == GrantInv /\ GrantVerbs => GrantInv'
<1>. SUFFICES ASSUME GrantInv, NEW u \in Users, NEW g \in Grants,
                     (\E k \in Clients : CreateGrant(u, k, g)) \/ RevokeGrant(u, g)
              PROVE  GrantInv'
  BY DEF GrantVerbs
<1>. USE DEF GrantInv
<1>1. ASSUME NEW k \in Clients, CreateGrant(u, k, g) PROVE GrantInv'
  <2>1. TypeOK'
    BY <1>1 DEF CreateGrant, Revoked, TypeOK, agentVars, bindingVars
  <2>2. \A h \in Grants : grant'[h] = "active" => h = g \/ (grant[h] = "active" /\ gclient[h] # k)
    BY <1>1 DEF CreateGrant, Revoked
  <2>3. \A h \in Grants : h # g => gclient'[h] = gclient[h] /\ guser'[h] = guser[h]
    BY <1>1 DEF CreateGrant, TypeOK
  <2>4. gclient'[g] = k /\ guser'[g] = u /\ owner' = u /\ status' = "active"
    BY <1>1 DEF CreateGrant, TypeOK, agentVars
  <2>5. owner' = owner /\ status' = status /\ req' = req
    BY <1>1 DEF CreateGrant, agentVars
  <2>6. GrantConsenterIsOwner' /\ LiveGrantsOnLiveAgents' /\ ConsenterNamed'
    BY <2>2, <2>3, <2>4, <2>5 DEF GrantConsenterIsOwner, LiveGrantsOnLiveAgents, ConsenterNamed
  <2>7. OneActiveGrantPerPair'
    BY <2>2, <2>3, <2>4 DEF OneActiveGrantPerPair
  <2>8. RequestsFit'
    BY <2>5 DEF RequestsFit
  <2>. QED
    BY <2>1, <2>6, <2>7, <2>8
<1>2. CASE RevokeGrant(u, g)
  <2>1. TypeOK'
    BY <1>2 DEF RevokeGrant, TypeOK, agentVars, bindingVars
  <2>2. status' \in {"active", "disabled"}
    BY <1>2 DEF RevokeGrant, LiveGrantsOnLiveAgents, agentVars
  <2>3. \A h \in Grants : grant'[h] = "active" => grant[h] = "active"
    BY <1>2 DEF RevokeGrant, TypeOK
  <2>4. RequestsFit'
    BY <1>2 DEF RevokeGrant, RequestsFit, agentVars
  <2>5. UNCHANGED <<owner, gclient, guser>>
    BY <1>2 DEF RevokeGrant, agentVars
  <2>. QED
    BY <2>1, <2>2, <2>3, <2>4, <2>5, KeptGrants
<1>. QED
  BY <1>1, <1>2

\* Binding verbs touch neither the row nor the grants.
LEMMA BindingVerbsInv == GrantInv /\ BindingVerbs => GrantInv'
<1>. SUFFICES ASSUME GrantInv, NEW r \in Requests,
                     \/ \E verb \in Pauses \ {"purge"}, u \in Callers, c \in Creds :
                            Pause(r, verb, u, c)
                     \/ CommitBinding(r)
              PROVE  GrantInv'
  BY DEF BindingVerbs, BeginBind, BeginResume, BeginUnbind, Pauses
<1>t. TypeOK
  BY DEF GrantInv
<1>1. ASSUME NEW verb \in Pauses \ {"purge"}, NEW u \in Callers, NEW c \in Creds,
             Pause(r, verb, u, c)
      PROVE  GrantInv'
  <2>. DEFINE q == [verb |-> verb, by |-> u, cred |-> c]
  <2>1. q \in Pending /\ q.verb \notin {"disable", "enable"}
    BY DEF Pending, Pauses
  <2>2. req' = [req EXCEPT ![r] = q] /\ UNCHANGED <<agentVars, grantVars, bindingVars>>
    BY <1>1 DEF Pause
  <2>3. TypeOK'
    BY <1>t, <2>1, <2>2 DEF TypeOK, agentVars, grantVars, bindingVars
  <2>4. RequestsFit'
    BY <2>1, <2>2, FitAfter DEF agentVars
  <2>. QED
    BY <2>2, <2>3, <2>4, SameGrants DEF GrantInv, agentVars
<1>2. CASE CommitBinding(r)
  <2>1. req' = [req EXCEPT ![r] = Idle] /\ UNCHANGED <<agentVars, grantVars>>
    BY <1>2 DEF CommitBinding
  <2>2. req[r] \in [verb : Pauses \ {"purge"}, by : Callers, cred : Creds]
    BY <1>t, <1>2 DEF CommitBinding, TypeOK, Pending, Idle, Pauses, Transactions
  <2>3. binding' \in [Creds -> {"none", "active", "suspended"}]
    BY <1>t, <1>2, <2>2 DEF CommitBinding, TypeOK, Written, Pauses
  <2>4. lent' \subseteq Creds
    BY <1>t, <1>2, <2>2 DEF CommitBinding, TypeOK
  <2>5. TypeOK'
    BY <1>t, <2>1, <2>3, <2>4 DEF TypeOK, agentVars, grantVars
  <2>6. RequestsFit'
    BY <2>1, FitAfter DEF agentVars, Idle
  <2>. QED
    BY <2>1, <2>5, <2>6, SameGrants DEF GrantInv, agentVars
<1>. QED
  BY <1>1, <1>2

\* GrantInv is inductive.
LEMMA NextGrantInv == GrantInv /\ [Next]_vars => GrantInv'
<1>1. GrantInv /\ UNCHANGED vars => GrantInv'
  BY DEF GrantInv, TypeOK, GrantConsenterIsOwner, OneActiveGrantPerPair, LiveGrantsOnLiveAgents,
     RequestsFit, ConsenterNamed, vars, agentVars, grantVars, bindingVars
<1>. QED
  BY <1>1, LockedGrantInv, UnlockedGrantInv, GrantVerbsInv, BindingVerbsInv DEF Next

\* GrantInv holds in every reachable state.
LEMMA GrantInvariance == Spec => []GrantInv
BY InitGrantInv, NextGrantInv, PTL DEF Spec

-----------------------------------------------------------------------------

\* In every instance and on both databases, an active consent grant was given
\* by the agent's current owner, whatever order consents, transfers, claims
\* and approvals take.
THEOREM ConsentFollowsOwner == Spec => []GrantConsenterIsOwner
<1>1. GrantInv => GrantConsenterIsOwner
  BY DEF GrantInv
<1>. QED
  BY <1>1, GrantInvariance, PTL

\* A (client, agent) pair never has two active grants: create_grant collapses
\* the pair under the agent's row lock.
THEOREM ConsentCollapses == Spec => []OneActiveGrantPerPair
<1>1. GrantInv => OneActiveGrantPerPair
  BY DEF GrantInv
<1>. QED
  BY <1>1, GrantInvariance, PTL

\* No active grant outlives the archive, the denial or the purge of its agent,
\* also on PostgreSQL, where archive reads the row without its lock.
THEOREM ConsentEndsWithAgent == Spec => []LiveGrantsOnLiveAgents
<1>1. GrantInv => LiveGrantsOnLiveAgents
  BY DEF GrantInv
<1>. QED
  BY <1>1, GrantInvariance, PTL

\* Every variable keeps its type, in every instance.
THEOREM TypeCorrect == Spec => []TypeOK
<1>1. GrantInv => TypeOK
  BY DEF GrantInv
<1>. QED
  BY <1>1, GrantInvariance, PTL

\* What a single step may do to a rejected row.
LEMMA RejectedStep ==
    GrantInv /\ [Next]_vars => (status = "rejected" => status' \in {"rejected", "archived", "purged"})
<1>. SUFFICES ASSUME GrantInv, [Next]_vars, status = "rejected"
              PROVE  status' \in {"rejected", "archived", "purged"}
  OBVIOUS
<1>1. CASE LockedVerbs
  BY <1>1 DEF LockedVerbs, Create, Register, Approve, Deny, Claim, Transfer
<1>2. ASSUME NEW r \in Requests, CommitDisable(r) \/ CommitEnable(r) PROVE FALSE
  BY <1>2 DEF CommitDisable, CommitEnable, UpdateStatus, GrantInv, RequestsFit
<1>3. CASE UnlockedVerbs
  BY <1>2, <1>3 DEF UnlockedVerbs, Begin, CommitArchive, ArchiveAndSweep, CommitPermissions,
     PurgeArchive, PurgeDelete, Abandon, agentVars
<1>4. CASE GrantVerbs
  BY <1>4 DEF GrantVerbs, CreateGrant, RevokeGrant, agentVars
<1>5. CASE BindingVerbs
  BY <1>5 DEF BindingVerbs, BeginBind, BeginResume, BeginUnbind, Pause, CommitBinding, agentVars
<1>6. CASE UNCHANGED vars
  BY <1>6 DEF vars, agentVars
<1>. QED
  BY <1>1, <1>3, <1>4, <1>5, <1>6 DEF Next

\* A denied registration never becomes active, although enable and disable
\* write the row without locking or re-reading it.
THEOREM DenialIsFinal == Spec => RejectionIsFinal
<1>1. GrantInv /\ [Next]_vars
        => [status = "rejected" => status' \in {"rejected", "archived", "purged"}]_vars
  BY RejectedStep
<1>. QED
  BY <1>1, GrantInvariance, PTL DEF Spec, RejectionIsFinal

-----------------------------------------------------------------------------
(* On SQLite *)

\* One write transaction at a time: the check it made still holds when it
\* commits.
Exclusive ==
    \A r \in Requests : req[r].verb \in Transactions =>
        /\ status \in From(req[r].verb)
        /\ \A s \in Requests \ {r} : req[s].verb \notin Transactions

\* The archive's sweep of the permissions holds.
Stripped == status = "archived" => ~perms

\* The inductive invariant of the serialised specification.
SerialInv ==
    /\ TypeOK
    /\ Exclusive
    /\ Stripped

\* A step with no open transaction before it and none after it.
LEMMA NoTransaction ==
    ASSUME Serialised, WriteFree, req' = req
    PROVE  Exclusive'
BY DEF WriteFree, Exclusive

\* A step that closes or takes up a request without opening a transaction.
LEMMA Closed ==
    ASSUME SerialInv, NEW r \in Requests, NEW q, req' = [req EXCEPT ![r] = q],
           q.verb \notin Transactions,
           \/ status' = status
           \/ req[r].verb \in Transactions
           \/ Serialised /\ WriteFree
    PROVE  Exclusive'
BY DEF SerialInv, TypeOK, Exclusive, WriteFree, From

\* The serialised specification keeps its invariant.
LEMMA NextSerialInv == Serialised /\ GrantInv /\ SerialInv /\ [Next]_vars => SerialInv'
<1>. SUFFICES ASSUME Serialised, GrantInv, SerialInv, [Next]_vars PROVE SerialInv'
  OBVIOUS
<1>t. TypeOK'
  BY NextGrantInv DEF GrantInv
<1>i. Idle.verb \notin Transactions
  BY DEF Idle, Transactions
<1>1. CASE LockedVerbs
  <2>1. WriteFree /\ req' = req
    BY <1>1 DEF LockedVerbs, Create, Register, Approve, Deny, Claim, Transfer
  <2>2. Stripped'
    BY <1>1 DEF LockedVerbs, Create, Register, Approve, Deny, Claim, Transfer, SerialInv,
       Stripped
  <2>. QED
    BY <1>t, <2>1, <2>2, NoTransaction DEF SerialInv
<1>2. ASSUME NEW r \in Requests, NEW verb \in Transactions, NEW u \in Users, Begin(r, verb, u)
      PROVE  SerialInv'
  <2>1. Exclusive'
    BY <1>2 DEF Begin, WriteFree, Exclusive, SerialInv, TypeOK, agentVars
  <2>2. Stripped'
    BY <1>2 DEF Begin, SerialInv, Stripped, agentVars
  <2>. QED
    BY <1>t, <2>1, <2>2 DEF SerialInv
<1>3. ASSUME NEW r \in Requests, CommitDisable(r) \/ CommitEnable(r) PROVE SerialInv'
  <2>1. Exclusive'
    BY <1>3, <1>i, Closed DEF CommitDisable, CommitEnable, UpdateStatus, Transactions
  <2>2. Stripped'
    BY <1>3 DEF CommitDisable, CommitEnable, UpdateStatus, SerialInv, Stripped
  <2>. QED
    BY <1>t, <2>1, <2>2 DEF SerialInv
<1>4. ASSUME NEW r \in Requests, CommitArchive(r) PROVE SerialInv'
  <2>1. Exclusive'
    BY <1>4, <1>i, Closed DEF CommitArchive, Transactions
  <2>2. Stripped'
    BY <1>4 DEF CommitArchive, ArchiveAndSweep, SerialInv, Stripped
  <2>. QED
    BY <1>t, <2>1, <2>2 DEF SerialInv
<1>5. ASSUME NEW r \in Requests, NEW some \in BOOLEAN, CommitPermissions(r, some) PROVE SerialInv'
  <2>1. Exclusive'
    BY <1>5, <1>i, Closed DEF CommitPermissions, Transactions
  <2>2. status' # "archived"
    BY <1>5 DEF CommitPermissions, SerialInv, Exclusive, From, Transactions
  <2>. QED
    BY <1>t, <2>1, <2>2 DEF SerialInv, Stripped
<1>6. ASSUME NEW r \in Requests, NEW u \in Users, PurgeArchive(r, u) PROVE SerialInv'
  <2>1. Exclusive'
    <3>1. [verb |-> "purge", by |-> u].verb \notin Transactions
      BY DEF Transactions
    <3>. QED
      BY <1>6, <3>1, Closed DEF PurgeArchive
  <2>2. Stripped'
    BY <1>6 DEF PurgeArchive, ArchiveAndSweep, SerialInv, Stripped
  <2>. QED
    BY <1>t, <2>1, <2>2 DEF SerialInv
<1>7. ASSUME NEW r \in Requests, PurgeDelete(r) PROVE SerialInv'
  <2>1. Exclusive'
    BY <1>7, <1>i, Closed DEF PurgeDelete
  <2>2. Stripped'
    BY <1>7 DEF PurgeDelete, SerialInv, Stripped
  <2>. QED
    BY <1>t, <2>1, <2>2 DEF SerialInv
<1>8. ASSUME NEW r \in Requests, Abandon(r) PROVE SerialInv'
  <2>1. Exclusive'
    BY <1>8, <1>i, Closed DEF Abandon, agentVars
  <2>. QED
    BY <1>t, <1>8, <2>1 DEF Abandon, SerialInv, Stripped, agentVars
<1>9. CASE GrantVerbs
  <2>1. WriteFree /\ req' = req /\ UNCHANGED agentVars
    BY <1>9 DEF GrantVerbs, CreateGrant, RevokeGrant
  <2>. QED
    BY <1>t, <2>1, NoTransaction DEF SerialInv, Stripped, agentVars
<1>10. CASE BindingVerbs
  <2>1. UNCHANGED agentVars
    BY <1>10 DEF BindingVerbs, BeginBind, BeginResume, BeginUnbind, Pause, CommitBinding
  <2>2. PICK r \in Requests :
            \/ \E verb \in Pauses \ {"purge"}, u \in Callers, c \in Creds :
                   Pause(r, verb, u, c)
            \/ CommitBinding(r)
    BY <1>10 DEF BindingVerbs, BeginBind, BeginResume, BeginUnbind, Pauses
  <2>3. CASE CommitBinding(r)
    <3>1. Exclusive'
      BY <1>i, <2>1, <2>3, Closed DEF CommitBinding, agentVars
    <3>. QED
      BY <1>t, <2>1, <3>1 DEF SerialInv, Stripped, agentVars
  <2>4. ASSUME NEW verb \in Pauses \ {"purge"}, NEW u \in Callers, NEW c \in Creds,
               Pause(r, verb, u, c)
        PROVE  SerialInv'
    <3>1. [verb |-> verb, by |-> u, cred |-> c].verb \notin Transactions
      BY DEF Pauses, Transactions
    <3>2. Exclusive'
      BY <2>1, <2>4, <3>1, Closed DEF Pause, agentVars
    <3>. QED
      BY <1>t, <2>1, <3>2 DEF SerialInv, Stripped, agentVars
  <2>. QED
    BY <2>2, <2>3, <2>4
<1>11. CASE UNCHANGED vars
  BY <1>t, <1>11 DEF vars, agentVars, SerialInv, Exclusive, Stripped
<1>. QED
  BY <1>1, <1>2, <1>3, <1>4, <1>5, <1>6, <1>7, <1>8, <1>9, <1>10, <1>11 DEF Next, UnlockedVerbs

\* Both hold of every reachable state when write transactions are serialised.
LEMMA SerialInvariance == Spec => [](GrantInv /\ (Serialised => SerialInv))
<1>1. Init => SerialInv
  <2>. SUFFICES ASSUME Init PROVE SerialInv
    OBVIOUS
  <2>1. TypeOK
    BY InitGrantInv DEF GrantInv
  <2>. QED
    BY <2>1 DEF Init, SerialInv, Exclusive, Stripped, Idle, Transactions
<1>2. ASSUME GrantInv, Serialised => SerialInv, [Next]_vars
      PROVE  (GrantInv /\ (Serialised => SerialInv))'
  <2>1. Serialised' = Serialised
    BY <1>2 DEF Next, vars
  <2>. QED
    BY <1>2, <2>1, NextSerialInv, NextGrantInv
<1>. QED
  BY <1>1, <1>2, InitGrantInv, PTL DEF Spec

\* On SQLite an archived agent holds no permission: no replacement that was
\* checked before the archive commits after it.
THEOREM SerialArchiveHasNoPermissions == Spec => []ArchivedHasNoPermissions
<1>1. (Serialised => SerialInv) => ArchivedHasNoPermissions
  BY DEF SerialInv, Stripped, ArchivedHasNoPermissions
<1>. QED
  BY <1>1, SerialInvariance, PTL

\* What one serialised step may do to an archived row.
LEMMA ArchivedStep ==
    SerialInv /\ [Next]_vars => (status = "archived" => status' \in {"archived", "purged"})
<1>. SUFFICES ASSUME SerialInv, [Next]_vars, status = "archived"
              PROVE  status' \in {"archived", "purged"}
  OBVIOUS
<1>1. CASE LockedVerbs
  BY <1>1 DEF LockedVerbs, Create, Register, Approve, Deny, Claim, Transfer
<1>2. ASSUME NEW r \in Requests, CommitDisable(r) \/ CommitEnable(r) PROVE FALSE
  BY <1>2 DEF CommitDisable, CommitEnable, UpdateStatus, SerialInv, Exclusive, Transactions, From
<1>3. CASE UnlockedVerbs
  BY <1>2, <1>3 DEF UnlockedVerbs, Begin, CommitArchive, ArchiveAndSweep, CommitPermissions,
     PurgeArchive, PurgeDelete, Abandon, agentVars
<1>4. CASE GrantVerbs
  BY <1>4 DEF GrantVerbs, CreateGrant, RevokeGrant, agentVars
<1>5. CASE BindingVerbs
  BY <1>5 DEF BindingVerbs, BeginBind, BeginResume, BeginUnbind, Pause, CommitBinding, agentVars
<1>6. CASE UNCHANGED vars
  BY <1>6 DEF vars, agentVars
<1>. QED
  BY <1>1, <1>3, <1>4, <1>5, <1>6 DEF Next

\* On SQLite archive is terminal: BEGIN IMMEDIATE leaves no room between the
\* check of an enable or disable and its write.
THEOREM SerialArchiveStays == Spec => SerialArchiveIsTerminal
<1>1. (Serialised => SerialInv) /\ [Next]_vars
        => [Serialised /\ status = "archived" => status' \in {"archived", "purged"}]_vars
  BY ArchivedStep
<1>. QED
  BY <1>1, SerialInvariance, PTL DEF Spec, SerialArchiveIsTerminal

=============================================================================
