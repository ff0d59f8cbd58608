--------------------------- MODULE AgentLifecycle ---------------------------
(***************************************************************************)
(* One agent row of the admin database and what is keyed by it: its owner, *)
(* its permission grants, the OAuth consent grants bound to it and its     *)
(* credential bindings (auth/services/agent_service.py,                    *)
(* auth/services/oauth_grant_service.py and their repositories).  Agents   *)
(* share no row, so one stands for all.                                    *)
(*                                                                         *)
(* A verb that locks the agent row (SELECT ... FOR UPDATE) is one step.  A *)
(* verb that reads the row without the lock and writes it later is two: a  *)
(* Begin that checks and a Commit that writes what was decided, whatever   *)
(* the row has become.  On PostgreSQL (READ COMMITTED) other transactions  *)
(* run between the two; on SQLite every write transaction opens with BEGIN *)
(* IMMEDIATE, so none does (Serialised).  Binding a credential checks in   *)
(* sessions of its own before its write transaction opens, so other        *)
(* writers run in between on both backends.                                *)
(***************************************************************************)
EXTENDS Naturals, FiniteSets

CONSTANTS
    Users,       \* users that own agents and call the API
    Admins,      \* the users that hold org:admin
    Self,        \* the agent, as a caller and as the creator of a credential
    NoOwner,     \* owner_id is null
    Clients,     \* OAuth clients that ask for consent
    Creds,       \* credentials of the control database
    CredOwner,   \* CredOwner[c]: created_by of the credential
    NumGrants,   \* bound: consent grants ever minted
    Requests     \* bound: API requests in flight at once

Grants  == 1 .. NumGrants
Callers == Users \cup {Self}

ASSUME AdminAssumption  == Admins \subseteq Users
ASSUME SelfAssumption   == Self \notin Users
ASSUME OwnerAssumption  == NoOwner \notin Callers
ASSUME CredAssumption   == CredOwner \in [Creds -> Callers]
ASSUME GrantAssumption  == NumGrants \in Nat

VARIABLES
    Serialised,  \* the deployment's database: SQLite, or PostgreSQL (FALSE)
    status,   \* agents.status; "absent" before the insert, "purged" after the delete
    owner,    \* agents.owner_id
    claim,    \* claim_token_hash is set and unexpired
    perms,    \* the agent has rows in actor_permission_grants
    grant,    \* oauth_client_grants.status, "none" when there is no row
    gclient,  \* oauth_client_grants.oauth_client_id
    guser,    \* oauth_client_grants.user_id, the consenting user
    binding,  \* agent_credential_bindings: "none", "active" or "suspended"
    lent,     \* history: the credentials whose binding an org:admin made active
    req       \* each request in flight: its verb and what its later steps use

agentVars   == <<status, owner, claim, perms>>
grantVars   == <<grant, gclient, guser>>
bindingVars == <<binding, lent>>
vars        == <<Serialised, agentVars, grantVars, bindingVars, req>>

Statuses == {"absent", "pending", "active", "rejected", "disabled", "archived", "purged"}
Row      == Statuses \ {"absent", "purged"}       \* statuses of a row that exists

\* Verbs whose write transaction is open after their check.
Transactions == {"disable", "enable", "archive", "replace_permissions"}
\* Verbs between two transactions: no lock is held.
Pauses       == {"bind", "resume", "suspend", "unbind", "purge"}
Idle         == [verb |-> "idle"]
Pending      == [verb : Transactions] \cup [verb : {"purge"}, by : Users]
                  \cup [verb : Pauses \ {"purge"}, by : Callers, cred : Creds]

Init ==
    /\ Serialised \in BOOLEAN
    /\ status  = "absent"
    /\ owner   = NoOwner
    /\ claim   = FALSE
    /\ perms   = FALSE
    /\ grant   = [g \in Grants |-> "none"]
    /\ gclient = [g \in Grants |-> NoOwner]
    /\ guser   = [g \in Grants |-> NoOwner]
    /\ binding = [c \in Creds |-> "none"]
    /\ lent    = {}
    /\ req     = [r \in Requests |-> Idle]

-----------------------------------------------------------------------------
(* Authorization and database rules *)

\* No write transaction of another request excludes this one.
WriteFree == Serialised => \A r \in Requests : req[r].verb \notin Transactions

\* _load_owned_agent: the row exists and the caller is its owner or an admin.
LoadOwned(u) == status \in Row /\ (u \in Admins \/ owner = u)

\* _load_binding_agent: the same, or the (authenticated, so active) agent itself.
LoadBinding(u) == IF u = Self THEN status = "active" ELSE LoadOwned(u)

\* _can_bind_credential: an admin any credential, others one they created, the
\* agent one its owner created when it may read the owner's credentials.
CanBind(u, c) == \/ u \in Admins
                 \/ CredOwner[c] = u
                 \/ u = Self /\ CredOwner[c] = owner

\* revoke_active_grants_for_agent, in the caller's transaction.
Revoked(g) == IF grant[g] = "active" THEN "revoked" ELSE grant[g]
RevokeActiveGrants ==
    /\ grant' = [g \in Grants |-> Revoked(g)]
    /\ UNCHANGED <<gclient, guser>>

NoBindings ==
    /\ binding' = [c \in Creds |-> "none"]
    /\ lent'    = {}

\* _archive_and_sweep: the status and every standing authority of the agent.
\* (Its holds and queued jobs are swept by the Archive action of JobQueue.)
ArchiveAndSweep ==
    /\ status' = "archived"
    /\ perms'  = FALSE
    /\ NoBindings
    /\ RevokeActiveGrants

-----------------------------------------------------------------------------
(* The agent row: creation, decision, claim and transfer, under its lock *)

\* create: an agent with an owner, active with permissions or pending without.
Create(u, s) ==
    /\ WriteFree
    /\ status = "absent"
    /\ s \in {"active", "pending"}
    /\ status' = s
    /\ owner'  = u
    /\ perms'  = (s = "active")
    /\ UNCHANGED <<claim, grantVars, bindingVars, req>>

\* register: a self-registration, unowned; a claim token when a minter is
\* configured, permission rows when it asked for scopes.
Register(token, asked) ==
    /\ WriteFree
    /\ status = "absent"
    /\ status' = "pending"
    /\ claim'  = token
    /\ perms'  = asked
    /\ UNCHANGED <<owner, grantVars, bindingVars, req>>

\* approve: pending to active; an unowned agent becomes the approver's.
Approve(u) ==
    /\ WriteFree
    /\ LoadOwned(u)
    /\ status = "pending"
    /\ status' = "active"
    /\ owner'  = IF owner = NoOwner THEN u ELSE owner
    /\ perms'  = TRUE
    /\ UNCHANGED <<claim, grantVars, bindingVars, req>>

Deny(u) ==
    /\ WriteFree
    /\ LoadOwned(u)
    /\ status = "pending"
    /\ status' = "rejected"
    /\ UNCHANGED <<owner, claim, perms, grantVars, bindingVars, req>>

\* claim: the holder of the single-use token takes an unowned agent.
Claim(u) ==
    /\ WriteFree
    /\ status \in Row \ {"archived"}
    /\ owner = NoOwner
    /\ claim
    /\ owner' = u
    /\ claim' = FALSE
    /\ UNCHANGED <<status, perms, grantVars, bindingVars, req>>

\* Mutant: the transfer does not sweep the consent grants.
TransferKeepingGrants(u, to, refs) ==
    /\ WriteFree
    /\ LoadOwned(u)
    /\ u \in Admins
    /\ status # "archived"
    /\ to # owner
    /\ owner' = to
    /\ UNCHANGED <<status, claim, perms, grantVars, bindingVars, req>>

\* _suspend_foreign_bindings_on_transfer: active bindings stay active only to
\* credentials of the agent or the new owner that the control database knows
\* (refs; none when the control database is not reachable).
SuspendForeign(to, refs) ==
    /\ binding' = [c \in Creds |->
                      IF binding[c] = "active" /\ ~(c \in refs /\ CredOwner[c] \in {Self, to})
                      THEN "suspended" ELSE binding[c]]
    /\ UNCHANGED lent

\* update_agent with a new owner_id (null allowed).
Transfer(u, to, refs) ==
    /\ WriteFree
    /\ LoadOwned(u)
    /\ u \in Admins
    /\ status # "archived"
    /\ to # owner
    /\ owner' = to
    /\ SuspendForeign(to, refs)
    /\ RevokeActiveGrants
    /\ UNCHANGED <<status, claim, perms, req>>

-----------------------------------------------------------------------------
(* Verbs that check the row without locking it *)

\* Mutant: an archived agent is not refused.
FromArchived(verb) == CASE verb = "disable" -> {"active"}
                        [] verb = "enable"  -> {"disabled", "archived"}
                        [] OTHER            -> Row

\* _VALID_TRANSITIONS of the unlocked verbs; archive and replace_permissions
\* refuse an archived agent only.
From(verb) == CASE verb = "disable" -> {"active"}
                [] verb = "enable"  -> {"disabled"}
                [] OTHER            -> Row \ {"archived"}

\* _check_transition without FOR UPDATE, the first statement of the transaction.
Begin(r, verb, u) ==
    /\ req[r] = Idle
    /\ verb \in Transactions
    /\ WriteFree
    /\ LoadOwned(u)
    /\ status \in From(verb)
    /\ req' = [req EXCEPT ![r] = [verb |-> verb]]
    /\ UNCHANGED <<agentVars, grantVars, bindingVars>>

\* update_status writes the row it loaded: an UPDATE by id, which fails only
\* when the row has been deleted.
UpdateStatus(s) ==
    /\ status' = IF status \in Row THEN s ELSE status
    /\ UNCHANGED <<owner, claim, perms, grantVars, bindingVars>>

\* disable keeps the consent grants: they are dormant until the agent is enabled.
CommitDisable(r) ==
    /\ req[r].verb = "disable"
    /\ UpdateStatus("disabled")
    /\ req' = [req EXCEPT ![r] = Idle]

CommitEnable(r) ==
    /\ req[r].verb = "enable"
    /\ UpdateStatus("active")
    /\ req' = [req EXCEPT ![r] = Idle]

\* archive: its UPDATE takes the row lock, so its sweeps see every grant minted.
CommitArchive(r) ==
    /\ req[r].verb = "archive"
    /\ IF status \in Row THEN ArchiveAndSweep
       ELSE UNCHANGED <<status, perms, grantVars, bindingVars>>
    /\ req' = [req EXCEPT ![r] = Idle]
    /\ UNCHANGED <<owner, claim>>

\* replace_permissions: deletes the agent's rows and inserts the given ones.
CommitPermissions(r, some) ==
    /\ req[r].verb = "replace_permissions"
    /\ perms' = some
    /\ req' = [req EXCEPT ![r] = Idle]
    /\ UNCHANGED <<status, owner, claim, grantVars, bindingVars>>

\* purge, step 1: archive first, unless archived, in a transaction of its own.
PurgeArchive(r, u) ==
    /\ req[r] = Idle
    /\ WriteFree
    /\ LoadOwned(u)
    /\ IF status # "archived" THEN ArchiveAndSweep
       ELSE UNCHANGED <<status, perms, grantVars, bindingVars>>
    /\ req' = [req EXCEPT ![r] = [verb |-> "purge", by |-> u]]
    /\ UNCHANGED <<owner, claim>>

\* purge, step 3: load again under the lock (the status is not looked at), then
\* delete the agent's rows of every kind.  Step 2 is the control database's.
PurgeDelete(r) ==
    /\ req[r].verb = "purge"
    /\ WriteFree
    /\ IF LoadOwned(req[r].by)
       THEN /\ status' = "purged"
            /\ perms'  = FALSE
            /\ NoBindings
            /\ grant'  = [g \in Grants |-> "none"]
       ELSE UNCHANGED <<status, perms, bindingVars, grant>>
    /\ req' = [req EXCEPT ![r] = Idle]
    /\ UNCHANGED <<owner, claim, gclient, guser>>

\* A request that is cancelled, crashes or loses its database rolls back.
Abandon(r) ==
    /\ req[r] # Idle
    /\ req' = [req EXCEPT ![r] = Idle]
    /\ UNCHANGED <<agentVars, grantVars, bindingVars>>

-----------------------------------------------------------------------------
(* Consent grants *)

\* The next grant id: ids are not reused when a purge deletes the rows.
Unused(g) == guser[g] = NoOwner /\ \A h \in Grants : h < g => guser[h] # NoOwner

\* Mutants: the pair's earlier grants are not collapsed; the status is not
\* checked again under the lock.
CreateGrantUncollapsed(u, k, g) ==
    /\ WriteFree
    /\ Unused(g)
    /\ status = "active"
    /\ owner = u
    /\ grant' = [grant EXCEPT ![g] = "active"]
    /\ gclient' = [gclient EXCEPT ![g] = k]
    /\ guser' = [guser EXCEPT ![g] = u]
    /\ UNCHANGED <<agentVars, bindingVars, req>>
CreateGrantUnchecked(u, k, g) ==
    /\ WriteFree
    /\ Unused(g)
    /\ status \in Row
    /\ owner = u
    /\ grant' = [h \in Grants |-> IF h = g THEN "active"
                                  ELSE IF gclient[h] = k THEN Revoked(h) ELSE grant[h]]
    /\ gclient' = [gclient EXCEPT ![g] = k]
    /\ guser' = [guser EXCEPT ![g] = u]
    /\ UNCHANGED <<agentVars, bindingVars, req>>

\* create_grant: under the agent's row lock, collapses the pair's active rows
\* and inserts the new one.
CreateGrant(u, k, g) ==
    /\ WriteFree
    /\ Unused(g)
    /\ status = "active"
    /\ owner = u
    /\ grant' = [h \in Grants |-> IF h = g THEN "active"
                                  ELSE IF gclient[h] = k THEN Revoked(h) ELSE grant[h]]
    /\ gclient' = [gclient EXCEPT ![g] = k]
    /\ guser' = [guser EXCEPT ![g] = u]
    /\ UNCHANGED <<agentVars, bindingVars, req>>

\* revoke_grant: by the consenting user or an admin, whatever the agent's status.
RevokeGrant(u, g) ==
    /\ WriteFree
    /\ grant[g] = "active"
    /\ guser[g] = u \/ u \in Admins
    /\ grant' = [grant EXCEPT ![g] = "revoked"]
    /\ UNCHANGED <<agentVars, gclient, guser, bindingVars, req>>

-----------------------------------------------------------------------------
(* Credential bindings: the checks run in sessions of their own *)

Pause(r, verb, u, c) ==
    /\ req[r] = Idle
    /\ req' = [req EXCEPT ![r] = [verb |-> verb, by |-> u, cred |-> c]]
    /\ UNCHANGED <<agentVars, grantVars, bindingVars>>

BeginBind(r, u, c) ==
    /\ LoadBinding(u)
    /\ CanBind(u, c)
    /\ Pause(r, "bind", u, c)

\* The agent never lifts a suspension of its own binding.
BeginResume(r, u, c) ==
    /\ LoadBinding(u)
    /\ u # Self
    /\ CanBind(u, c)
    /\ Pause(r, "resume", u, c)

\* unbind_credential suspends; with purge (never the agent's) it deletes a row
\* that it found.
BeginUnbind(r, u, c) ==
    /\ LoadBinding(u)
    /\ \/ Pause(r, "suspend", u, c)
       \/ u # Self /\ binding[c] # "none" /\ Pause(r, "unbind", u, c)

\* The row a binding verb leaves: bind conflicts with an existing row, the
\* others need one.
Written(verb, old) ==
    CASE verb = "bind"    -> IF old = "none" THEN "active" ELSE old
      [] verb = "resume"  -> IF old = "none" THEN "none" ELSE "active"
      [] verb = "suspend" -> IF old = "none" THEN "none" ELSE "suspended"
      [] verb = "unbind"  -> "none"

CommitBinding(r) ==
    /\ req[r].verb \in Pauses \ {"purge"}
    /\ WriteFree
    /\ LET c   == req[r].cred
           new == Written(req[r].verb, binding[c])
       IN  /\ binding' = [binding EXCEPT ![c] = new]
           /\ lent' = IF new # "active" \/ (req[r].verb = "bind" /\ binding[c] = "active")
                      THEN lent
                      ELSE IF req[r].by \in Admins THEN lent \cup {c} ELSE lent \ {c}
    /\ req' = [req EXCEPT ![r] = Idle]
    /\ UNCHANGED <<agentVars, grantVars>>

-----------------------------------------------------------------------------

LockedVerbs ==
    \/ \E u \in Users, s \in {"active", "pending"} : Create(u, s)
    \/ \E token, asked \in BOOLEAN : Register(token, asked)
    \/ \E u \in Users : Approve(u) \/ Deny(u) \/ Claim(u)
    \/ \E u \in Users, to \in Users \cup {NoOwner}, refs \in SUBSET Creds : Transfer(u, to, refs)

UnlockedVerbs ==
    \E r \in Requests :
        \/ \E verb \in Transactions, u \in Users : Begin(r, verb, u)
        \/ CommitDisable(r) \/ CommitEnable(r) \/ CommitArchive(r)
        \/ \E some \in BOOLEAN : CommitPermissions(r, some)
        \/ \E u \in Users : PurgeArchive(r, u)
        \/ PurgeDelete(r) \/ Abandon(r)

GrantVerbs ==
    \E u \in Users, g \in Grants :
        \/ \E k \in Clients : CreateGrant(u, k, g)
        \/ RevokeGrant(u, g)

BindingVerbs ==
    \E r \in Requests :
        \/ \E u \in Callers, c \in Creds :
              BeginBind(r, u, c) \/ BeginResume(r, u, c) \/ BeginUnbind(r, u, c)
        \/ CommitBinding(r)

Next ==
    /\ LockedVerbs \/ UnlockedVerbs \/ GrantVerbs \/ BindingVerbs
    /\ UNCHANGED Serialised

Spec == Init /\ [][Next]_vars

-----------------------------------------------------------------------------
(* Properties *)

\* Every variable keeps the shape the rows and the request handlers give it.
TypeOK ==
    /\ status \in Statuses
    /\ owner \in Users \cup {NoOwner}
    /\ claim \in BOOLEAN /\ perms \in BOOLEAN
    /\ grant \in [Grants -> {"none", "active", "revoked"}]
    /\ gclient \in [Grants -> Clients \cup {NoOwner}]
    /\ guser \in [Grants -> Users \cup {NoOwner}]
    /\ binding \in [Creds -> {"none", "active", "suspended"}]
    /\ lent \subseteq Creds
    /\ req \in [Requests -> {Idle} \cup Pending]

\* "A LIVE grant's consenter is always the current owner": no order of
\* consents, claims, approvals, transfers, archives and purges leaves an active
\* grant whose consenting user is not the agent's owner now.
GrantConsenterIsOwner == \A g \in Grants : grant[g] = "active" => guser[g] = owner

\* Re-consent collapses the pair: one client never has two active grants on an
\* agent, whoever consented and however grants and revocations interleave.
OneActiveGrantPerPair ==
    \A g, h \in Grants : grant[g] = "active" /\ grant[h] = "active" /\ gclient[g] = gclient[h]
                            => g = h

\* Archiving, denying and purging leave no live consent behind, also when a
\* consent, an enable or a disable was under way meanwhile: an active grant
\* belongs to an agent that is active or can be re-enabled.
LiveGrantsOnLiveAgents ==
    \A g \in Grants : grant[g] = "active" => status \in {"active", "disabled"}

\* A denied registration is never activated: no verb, and no write decided on
\* an earlier read of the row, takes a rejected agent anywhere but to the archive.
RejectionIsFinal == [][status = "rejected" => status' \in {"rejected", "archived", "purged"}]_vars

\* "archive is terminal": an archived agent stays archived until it is purged.
ArchiveIsTerminal == [][status = "archived" => status' \in {"archived", "purged"}]_vars

\* On SQLite it is: BEGIN IMMEDIATE leaves no room between the check of an
\* enable or disable and its write.
SerialArchiveIsTerminal ==
    [][Serialised /\ status = "archived" => status' \in {"archived", "purged"}]_vars

\* On SQLite the archive sweep is not undone: an archived agent holds no
\* permission, also when a replacement was checked before the archive.
ArchivedHasNoPermissions == Serialised /\ status = "archived" => ~perms

\* "an ownership transfer never hands the new owner an active binding they
\* could not create themselves": an active binding that no admin made is to a
\* credential of the agent or of its current owner.
ActiveBindingsOfOwner ==
    \A c \in Creds : binding[c] = "active" /\ c \notin lent => CredOwner[c] \in {Self, owner}

=============================================================================
