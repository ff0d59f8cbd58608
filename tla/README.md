# TLA+ models of jentic-one

jentic-one stands between AI agents and third-party APIs: it keeps API
descriptions and credentials, decides which agent may call what, holds calls for
human approval, makes the calls inline or from queued jobs, and issues the tokens
agents and OAuth clients authenticate with. This directory models the parts of the
server (`src/src/jentic_one`) where several requests, tasks, workers or databases
meet: what they do to shared state in an order nobody wrote a test for.

`PROJECT.json` lists components, runs, the source lines of every definition,
findings, hazards and theorems. Run a model with
`tlc -config JobQueue_crash.cfg MCJobQueue`, check proofs with
`tlapm JobQueueProofs.tla`.

## Inventory

| Component | State | Operations | Meets | Hard behaviour |
|---|---|---|---|---|
| Job queue and worker (`shared/jobs`) | `jobs`, `job_results`, per-process memory | enqueue, claim, re-claim gate, handler, complete, fail, requeue, sweep | holds, agents, broker | crashes, lost commits, leases outlived by their worker |
| Approval holds (`shared/jobs/hold.py`, admin hold service) | `held_executions` | file, decide, withdraw, expire | job rows, agent sweeps | two compare-and-sets from different transactions |
| Worker loop (`shared/jobs/worker.py`, `wakeup.py`) | wake-up and idle events, tasks in flight | poll, claim, wait, drain, cancel | queue, enqueuing sessions | lost wake-up, drain during a claim |
| Agent lifecycle (`auth/services/agent_service.py`) | `agents`, permissions, bindings | create, register, claim, approve, deny, disable, enable, archive, purge, transfer, bind | consent grants, jobs | reads without row locks, two databases |
| Consent grants (`oauth_grant_service.py`) | `oauth_client_grants` | mint, revoke, sweep with the agent | tokens, agents | mint against transfer or archive |
| Codes and token families (`token_service.py`, `authorize_service.py`, `oauth_revocation_service.py`) | codes, access and refresh tokens | issue, exchange, rotate, revoke, resolve | grants, clients, agents | rotation against revocation, mint after check |
| Inline execution (`broker/web/routers/execute.py`, `broker/adapters/runners`) | request tasks, background tasks, persist slots | claim, call, retry, record, stream, persist, drain | idempotency store, breaker | a retry after the send, a record that fails after the call |
| Idempotency store, breaker and their state backend (`broker/services/idempotency.py`, `shared/resilience`, `shared/state`) | entries with deadlines and budgets | begin, complete, allow, record | execution | a claim that expires during the call, a full store, counters that expire separately |
| Single flight, TTL cache (`broker/core`, `shared/ttl_cache.py`) | entries, lookups under way, generation | validate, get_or_load, invalidate, clear | token validation, catalogue | cancelled leader, load that outlives a clear |
| OAuth grant of a credential (`broker/services/credentials/refresh.py`, `control/services/credentials`) | `oauth_tokens`, lock, `token_url` | refresh, connect, move endpoint, delete | vendor | the vendor rotates and the commit fails |
| Connect sessions (`control/services/integrations`) | `connect_sessions`, revisions, outcomes; bindings in the other database | ask, amend, confirm, land, cancel, reject, expire | credentials, bindings, vendor | caps, confirm against amend and expiry, death between transactions |
| Edit sessions (same service) | the same, with baseline and held change | open, amend, rebase, confirm, land | rules, vendor | rules that move under an approval |
| Registry revisions, overlays, import (`registry`) | `revisions`, `overlays` | publish, apply, import | jobs, search | publication against concurrent overlays |
| Permission rules (`shared/permissions`) | none | evaluate | broker, dry run | order of rules |
| Users, OAuth clients, MCP, events, audit, web, CLI, UI, migrations | rows and views | CRUD, adapters | all | little of their own |

What makes them correct: an approved call goes out at most once and a refused one
never; a hold and its job agree; a settled job stays settled; every job, hold and
connect session ends; a drained worker holds no work and misses no wake-up; an
unsafe call is sent once and a guarded key runs once; consent belongs to the
current owner and ends with the agent; an archive is final; a token family has one
live refresh token; a code buys one pair; revocation reaches every token it names;
a refresh token stays with the origin that issued it; what is connected or changed
is what was reviewed; a stale cache entry expires.

## Modules

**`JobQueue`** models the queue, the holds and the worker processes. The rows are
functions over `Jobs` (`status`, `visible`, `attempts`, `marker`, `result`,
`approval`, ...); `pc`, `wjob`, `wattempt`, `memory` are a worker's position in
`_process_job`. One action is one transaction, or the code between two awaits.
Time is "a deadline has passed or not" (`LeaseLapse`, `BackoffLapse`,
`ApprovalLapse`). `sent`, `ran` and `grace` are history variables. A fault is a
crash, a failed or doubtful commit, or a lease a live worker outlasts
(`MayOverstay`); `MaxFaults` bounds them.

**`ApprovalGate`** is the abstract specification of the approval path: wait,
lapse, release, refuse, call once. `JobQueue!ImplementsGate` maps `approval`,
`lapsed` and `sent` onto it.

**`WorkerLoop`** is the event-loop side of one worker process: `run` with its
polls and waits (`pc` is the await it is at), sessions that enqueue and notify
after their commit (the commit and its listener are two steps), the tasks of
claimed jobs with their done callbacks, `drain` and the cancellation that follows
it. A step is what runs between two awaits.
`released` says that an `asyncio.Event` has released its waiter, which holds even
if the event is cleared before the waiter runs. What a claimed job does to its row
is `JobQueue`'s business.

**`AgentLifecycle`** models one agent row with its owner, permissions, consent
grants and credential bindings. Verbs that lock the row are one action. Verbs that
read without the lock are a Begin, which checks, and a Commit, which writes what
was decided. The variable `Serialised`, chosen by Init and never changed, is the
database: SQLite excludes write transactions from each other (BEGIN IMMEDIATE),
PostgreSQL (READ COMMITTED) does not. Purge is two steps, bind and resume check in
sessions before their write on both databases.

**`TokenFamilies`** models authorization codes, token pairs, rotation with reuse
detection, and the family, grant and single-token revocations of one actor. A
rotation is a locked check and a write. A revocation is two steps, because a
READ COMMITTED `UPDATE` works on the rows its statement saw and waits for the
locked ones. The refresh row's lock (`Locked`), the grant row's lock
(`GrantFree`) and SQLite's exclusion (`Free`, with `Serialised` as above) order
the steps. `Resolves` is the live check of `resolve_access_token`.

**`StateBackend`** is the in-process key/value store: entries with a size and a
deadline, budgets per namespace, per owner and in total, no eviction of a live
entry. Its methods never suspend, so each is an operator on the store. `Bytes`, the
sum `_Usage` keeps up to date, is the cardinality of a set with one element per
byte: sums over a set are out of the prover's reach, cardinalities are not.

**`InlineExecution`** runs requests over one such store. A request with an
Idempotency-Key is buffered: claim, credential injection, attempts under the
retry, breaker and deadline runners, record, promotion to a stored response. One
without is streamed; a background task writes its record under the persist gate
and is subject to its own timeout and to the shutdown drain. `sent` counts what
went on the wire, `guard` until when a key is protected from running again.

**`ConnectSessions`** models sessions that connect an API: asks under caps and a
rejection cooldown, amendment, the kinds of confirmation (OAuth consent, entered
secret, own client, credential already held, and one that a consent has to widen),
the landing grant, and the three ways a session is ended. Every transaction is an
action, since sessions, credentials and rules are in one database and bindings in
another; a confirm may die between two of them (`Faulty`). Whether the agent is
still usable after its binding is a choice of `_bind_for_confirm`'s second read
(`AgentUsable`, `AgentUnusable`). A widening (`SwapToEdit`) turns the session into
an edit of the existing credential that holds its rules until the grant lands
(`LandEdit`). Whether the rules of the binding moved meanwhile is a choice too; if
they did, the session is `reopened`, and its further review is `BindingEdits`'
subject. `LandBind`, like a confirm's later steps, may never happen.

**`BindingEdits`** models edit sessions on one binding: a baseline, revisions,
rebases, a confirm that applies at once or holds its change while the vendor is
asked, the landing, reopening, and rules an operator writes directly. A rule list
is its content and the identity of its rows, because a rewrite that changes
nothing still makes new rows. Whether a landing discards a change its approver made
is decided against the baseline the session has when the grant lands (`Reopens`).

**`CredentialGrant`** models one credential's OAuth grant. A refresh keeps its
transaction and its lock open across the vendor's call. A response of a vendor is
a number; `home` says which origin issued it, `spent` which refresh tokens were
rotated out, `lost` which of the successors never reached the row. Connect flows, a
cross-origin edit of `token_url` and deletion run against it.

**`LookupCaches`** models the two caches that share a lookup between callers:
`SingleFlight` under the verdict caches, whose lookup dies with its leader, and
`AsyncTTLCache`, whose load is a task of its own. Rows have versions, so that the
age of an answer can be told; Init picks the cache (`kind`).

`MC*` modules give the instances their functions and symmetry sets, `*Proofs`
modules hold the theorems. The models meet where the code does:
`Archive` and `Purge` in `JobQueue` are the job half of the sweeps in
`AgentLifecycle`; `StartGrant` in `TokenFamilies` is the token half of its grant
revocations; `LandWrite` of the session models and `Store` of `CredentialGrant`
are two callers of the same write under the same lock; `WorkerLoop`'s `JobEnds`
stands for a run of `JobQueue`'s worker. `InlineExecution` is composed with
`StateBackend`; the others share no variable.

## Runs

| Run | Instance | Shows |
|---|---|---|
| `jobqueue_crash` | 2 jobs, 2 workers, 1 fault, leases not overstayed | holds and jobs agree, no execution is sent twice, archived agents are stopped |
| `jobqueue_lease` | 1 job, 2 workers, 3 faults, leases overstayed, fair | approved calls run once, settled rows stay, `ApprovalGate` is implemented, jobs and holds settle |
| `agents_verbs` | 2 users, 2 clients, 2 grants, 2 requests, both databases | grants follow owner and status; archive is terminal on SQLite |
| `tokens_rotation` | 3 pairs, 1 code, 2 requests, both databases | one live refresh token, one pair per code, revoked grants resolve nothing, family revocations complete on SQLite |
| `inline_calls` | 2 requests, keyed or streamed, 1 key, 2 fingerprints, tight budgets, 2 attempts, 1 persist slot | unsafe calls sent once, guarded keys run once, replays have their body, slots return, the circuit report survives |
| `connect_review` | 3 asks at the caps, or 1 session with 2 confirms, a grant, a sweep; fair sweep | reviewed is connected, ended keeps nothing, one consent, caps, sessions end |
| `edits_land` | 2 edits, 2 confirms, a rebase, a landing, 2 rule writes | confirms replace what was reviewed, applied is written, no grant for an ended session |
| `caches_shared` | 3 callers, 2 keys, room for 1 entry and 1 lookup, either cache, fair | shared lookups, verdicts that expire, clears that hold, callers answered |
| `grant_refresh` | 2 calls, 1 connect flow, 2 origins, 4 responses, 1 move, 1 fault, fair | tokens stay home, replays only after loss, answers extend their grant, calls end |
| `worker_drain` | 3 jobs, 2 slots, a session of this and one of another process, 1 fault, fair | a drained loop is quiet, no wake-up lost, claimable jobs start |
| `jobqueue_budget` | 1 job, 1 worker, 2 crashes | counterexample, below |
| `edits_overwrite` | as `edits_land` | counterexample, below |

Bounds. Two workers and three claims of one job are what a stale worker needs to
meet a newer claim and its settlement; two jobs are needed for cross-talk in the
queue. Two requests in flight are a check and the transaction that comes between;
three pairs are a chain of three or two families. Two grants of one pair are what
the collapse rule is about. The budgets of `inline_calls` are one entry short of
what its requests want, so that claims, records, bodies, counters and the latch
are each refused in some run, and a claim expires one tick before a record does.
Three asks exceed each cap by one; two confirms, an amendment and a sweep are what
a stale approval needs. Three callers are a cancelled leader, a waiter that takes
over and a newcomer. Four responses are a grant, a rotation, a lost one and a
reconnect. Three jobs over two slots leave one that waits for a slot. The proofs
remove the bounds for the safety properties they cover. Deadlock is not checked:
requests, jobs and faults are bounded, so every instance stops.

Fairness. `jobqueue_lease`: weak fairness of each worker's steps, since workers
poll for ever and each handler step has a timeout; of the clock passing a deadline
nobody renews; and of the expiry sweep, which the loop runs every
`sweep_interval_s`; reviewers are never assumed to act. `connect_review`: only the
scanner's sweep of stale sessions, which runs on an interval; confirms may stop
anywhere. `caches_shared`: the event loop resumes what is ready and a query
answers or raises. `grant_refresh`: a broker call goes on, since the HTTP client
times out and the lock has a busy timeout. `worker_drain`: the event loop,
intervals and callbacks run and handlers return. Faults are finite everywhere.

### Where code and documentation differ

- `jobqueue_budget`: a job whose worker dies is claimed past `max_attempts`,
  which only `_handle_failure` compares.
- `edits_overwrite`: `_rebase_edit` writes the new baseline without looking at the
  session's state. One that read the session before a confirm writes after it, and
  the landing grant then takes rules its approver never saw for the reviewed ones
  and replaces them; `_write_change` says it keeps them.

Configurations for further counterexamples are kept beside the models, to be run
by hand; each property is stated in its module with the sentence it comes from.

| Configuration | Property | What happens |
|---|---|---|
| `JobQueue_sharedtrace.cfg` | `RefusedOnlyAfterOwnRun` | a re-claimed job is failed for a credential event of another job of the same trace (`_has_execution_dispatched`: "an earlier claim of ``job``") |
| `AgentLifecycle_revived.cfg` | `ArchiveIsTerminal` | on PostgreSQL a disable that read the row before an archive writes over it, and the agent can be enabled again ("archive is terminal") |
| `AgentLifecycle_bindrace.cfg` | `ActiveBindingsOfOwner` | a bind checked before an ownership transfer inserts the previous owner's credential as an active binding after it |
| `TokenFamilies_lateheir.cfg` | `RevokedFamilyIsDead` | on PostgreSQL the refresh token a rotation under way inserts survives the revocation of its family |
| `ConnectSessions_ghost.cfg` | `NoGhostBinding` | a confirm of a session that names no agent binds the agent its approver picked and dies before its swap; the sweep that ends the session has no agent to unbind ("no ghost binding outlives the credential") |
| `ConnectSessions_winner.cfg` | `WinnerStaysBound` | a confirm whose write fails removes the binding it made after a second confirm has found it in place and before that one connects ("a concurrent confirm that connected the same credential keeps the binding") |
| `ConnectSessions_leftover.cfg` | `EndedRowsGo` | a cancel reads a session before a confirm moves it onto an existing credential: it ends the session and deletes the credential it read, which is gone already, so the ended row stays (`_mark_terminal`: "delete the credential + session") |
| `ConnectSessions_rejection.cfg` | `RejectionHolds` | an ask that passed the cooldown check opens after the rejection that should have refused it (`reject_session`) |
| `LookupCaches_invalidate.cfg` | `InvalidationIsImmediate` | a lookup under way during an invalidation stores what it read before, for up to the TTL (`BrokerCacheInvalidatorProtocol`: "immediately") |
| `InlineExecution_ratio.cfg` | `RatioOverOneWindow` | the breaker's counters expire separately, so failures of the last window are divided by the calls of this one |

## Proofs

All theorems hold for every value of the constants under the modules' named
assumptions: counts, sizes and lifetimes are naturals, `Owner` and `CredOwner` are
total, names that stand for nobody are nobody's, the attempt budget is positive,
keyed requests and streams are different requests, a tombstone is no larger than
the claim it overwrites (`ClaimCoversTombstone`), and the three namespaces of the
broker have a budget. TLC evaluates them on the instances. The models' own
abstractions remain: one slot per worker process, one agent row, one consent
grant, one credential. TLC also finds the inductive invariants to hold on the runs'
instances.

Two theorems have a hypothesis on the deployment. `RunsOnce` assumes that no live
worker outlasts its lease (`MayOverstay = FALSE`); when one may, a second worker
can send an unapproved call again (TLC shows it on the instance of
`jobqueue_lease`). `KeysRunOnce` assumes `PendingTTL <= DoneTTL`, which the defaults satisfy (35 s against hours) and `IdempotencyConfig`
does not enforce: with the opposite order a late completion would replace another
run's claim by a record that expires before it, and a third request can run the key
(TLC shows it with three requests of one key, `PendingTTL = 2` and `DoneTTL = 1`).

**`JobQueueProofs`** proves `TypeCorrect`, `ApprovedOnce`, `HeldCallsWait` and
`HoldsAgree` from one inductive invariant `Inv`. `ApprovedRunsOnce` alone is not
inductive: a second worker about to dispatch would break it. `Inv` adds that a
busy worker's attempt was counted by the row and is its alone, that past the
re-claim gate only a first attempt belongs to an approved job, and that nothing
was sent before that attempt reached the wire. Frame lemmas (rows only, a worker
moves, a claim, a dispatch) carry most of the actions.

It also proves `Refinement` (the queue implements `ApprovalGate`) and the action
properties `Settled` and `Requeues`, by classifying every step as one that leaves
holds and wire alone or is one of five moves of the gate.

`RunsOnce` is about every execution, the unapproved ones included, which the
re-claim gate lets run again when it finds no trace of them. `OnceInv` says a busy
worker has the job's latest claim and nobody can take the job from it (`SoleRun`),
nothing was sent for a job on its way to the wire (`Unsent`), and what was sent
left the trace the gate looks for (`SentIsTraced`): the dispatch event is committed
before the call. `ArchiveStopsRuns` needs only `Inv`, and no hypothesis on leases.

**`AgentLifecycleProofs`** proves the grant properties and the finality of a
denial on both databases. The strengthening `RequestsFit` says that a status write
in flight was decided on an agent past its decision; `ConsenterNamed` says an
unowned agent has no active grant. `SerialArchiveStays` and
`SerialArchiveHasNoPermissions` are about `Serialised`, with `Exclusive`: one write
transaction at a time. Without it `AgentLifecycle_revived.cfg` refutes the first.

**`TokenFamiliesProofs`** proves `OneHeir` and `SingleUseCodes` from `LiveInv`: a
token under rotation is live and held by one rotation, a code under exchange is
consumed and held by one exchange. `RevokedConsentIsDead` needs `Lineage`: a
chain keeps the stamp of its first pair. `SerialFamilyDies` is about `Serialised`
and needs `Sweeps`: a revocation under way has every live row of its family.

**`CredentialGrantProofs`** proves `RefreshesStayHome`, `ReplaysNeedLoss` and
`AnswersExtend` from `GrantInv`: the call that is out holds the lock and the
row, unless deleted, still has the token it took (`Holder`); the row's token, and
every token on its way to it, is of the stored origin (`AtHome`); a refresh token
an answer brings is live and nobody else's (`Unspent`); and a rotated-out token
that is stored lost its successor, or the call that has it is about to store it
(`Replayable`). The lock is what makes `Holder` inductive, and the re-read of the
endpoint under it `AtHome`.

**`WorkerLoopProofs`** proves `DrainsAreQuiet` from `DrainInv`: a running job is
tracked and a claimed one is the one the claim under way returns (`Tracked`); idle
is only set without work, and once drain has begun nothing is claimed any more, so
a release stays true after the event it came from (`Quiet`).

`WakeupsAreHeard` adds `EmptyClaimIsTold`: a claim that found the queue empty has
missed no announced job whose signal is not on its way, because `_wake` is cleared
before the poll and never between the poll and the wait.

**`LookupCachesProofs`** proves `LookupsAreShared`, `VerdictsExpire` and
`ClearsAreFinal` for any number of callers, keys, versions and clears, any TTL and
any limits, from one `Inv`. A lookup under way has read a version that was current
when it began or later (`LookupsFresh`), so that an entry, whose lifetime is
counted from the beginning of its lookup, ends within a TTL of the commit that
outdated it (`EntriesFresh`). A load of the present generation, and any that can
still be joined, has read nothing from before the last clear (`LoadsFresh`), and a
waiter waits on a lookup that can only bring what it may be given
(`CallersServed`). `Registered` makes the sharing inductive.

**`ConnectSessionsProofs`** proves `EndedSessionsKeepNothing`,
`ReviewedIsConnected`, `OneVendorConversation` and the action property `CapsHold`
for any number of asks, confirms, sweeps, grants and revisions, with confirms that
die between any two transactions. The key is `TalkersOwn`: the confirm that won the
compare-and-set on state and revision owns the session until it ends, the row
keeps its agent and revision, and its approved rules stay unless the session ends.
`GrantsIssued` ties a grant that arrives to a consent some confirm has issued, and
`AgentsPicked` the agent a confirm binds to the one the session names. For
widenings, `EditsMoved` says that the session has given up its own credential and
the rules on it, `SweepsKnow` that a session read as an edit stays one, and
`RulesKnown` that a session has rules on another credential only if it connected:
with `EndedGone` they give `EndedKeepsNothing`. The caps
need that open sessions are finitely many, so that opening one adds one to a count.

**`InlineExecutionProofs`** has three layers. `CallInv` is about requests and
tasks: an unsafe request that may still be sent has not been sent, every writing
task has a slot of the persist gate, a due report comes before the record. It
gives `UnsafeCallsAreSentOnce`, `SlotsComeBack` and `ReportsComeFirst`. `StoreInv`
is about the store: it is within every budget (`BudgetsHold`), a slot is a claim, a
tombstone or a record of known size, and a body lasts as long as the record that
refers to it, which is `ReplaysFindTheirBody`. `GuardInv`, for `KeysRunOnce`, says
that a guarded key's slot is taken for at least as long as the guard, and that no
guard reaches further than a response lasts. Its lemmas about `StateBackend` are
`StoreEffect` (a write changes its own key and drops expired entries only) and
`OverwriteIsStored`, what `_refusing_scope` says in a comment, "an overwrite no
larger than the entry fits": the tombstone that a failed record leaves is never
refused. It holds only because the store is within its budgets to begin with,
which is why `WithinBudget` is part of the invariant.

Only model-checked: the liveness properties (`JobsSettle`, `HoldsSettle`,
`SessionsEnd`, `CallersAnswered`, `CallsEnd`, `ClaimableJobsStart`), since fairness
is out of the prover's reach, and the three action properties of `BindingEdits`.
The counterexamples are TLC's.

## Not modelled

Payloads, scopes, PKCE and signatures, encryption, expiry times beyond passed or
not, metrics, logging and HTTP. In `AgentLifecycle`: the binding made by an access
request, `update_jwks`, polling with the registration token. In `TokenFamilies`:
plain user codes, ephemeral access-only tokens, the assertion `jti` store, the
sweep of an OAuth client's hard delete. In `InlineExecution`: the rate limiter,
the Redis backend, an async job that answers an inline request. In
`ConnectSessions` and `BindingEdits`: sessions that create a vendor entry, poll
tokens, who may review, shared rule sets (a set has its own lock and behaves like
a binding's list). In `CredentialGrant`: shared app registrations, whose
`token_url` edit takes no lock of the credentials that use it, account-reference
providers, the device flow, and `revoked_at`: a refresh treats a row that has it
like a missing one, but only `mark_revoked` sets it and nothing calls that. In
`LookupCaches`: the DNS cache and the caches of derived routes and rules. In
`WorkerLoop`: `stop`, which nothing calls.

Most of the repository's lines have no protocol state to model: request and
response schemas, routers that call one service method, OpenAPI parsers and
normalisers, queries, MCP and CLI formatting, the UI, migrations. They are listed
in `PROJECT.json` with the reason. The modelled services hold most of the
concurrent writers; the registry is the largest part with state of its own that is
still missing.

## Plan

In order:

1. `RegistryRevisions`: publication against overlays and imports.
2. Composition of `AgentLifecycle` with `TokenFamilies` (archive and transfer
   sweep tokens) and with the holds of `JobQueue`; the client's hard delete.
3. An abstract connect session, and `ConnectSessions` shown to implement it.
4. Users and invites: redemption and the last admin.
5. Proofs: `ConfirmReplacesReviewed`, `AppliedIsWritten` and
   `GrantLandsWithSession` of `BindingEdits`, with the ownership invariant of
   `ConnectSessionsProofs` adapted to held changes.
