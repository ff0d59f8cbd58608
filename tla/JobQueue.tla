------------------------------ MODULE JobQueue ------------------------------
(***************************************************************************)
(* The admin database's job queue, the approval holds in front of it and   *)
(* the worker processes that drain it.                                     *)
(*                                                                         *)
(* One action is one database transaction (or one in-process step between  *)
(* two awaits) of shared/jobs/worker.py, shared/jobs/execution_handler.py, *)
(* shared/jobs/hold.py, the admin surface's hold and job services and the  *)
(* agent sweeps of auth/services/agent_service.py.  Wall-clock time is     *)
(* abstracted to "a deadline has passed or has not": see LeaseLapse,       *)
(* BackoffLapse and ApprovalLapse.                                         *)
(*                                                                         *)
(* Jobs are numbered in creation order (ids are time-ordered KSUIDs and    *)
(* created_at is stamped at insert), so "oldest first" is "smallest        *)
(* number".                                                                *)
(***************************************************************************)
EXTENDS Naturals, FiniteSets

CONSTANTS
    NumJobs,          \* jobs ever created (bound)
    Workers,          \* worker processes, one slot each (worker.concurrency = 1)
    Agents,           \* actors that enqueue jobs
    Owner,            \* Owner[j]: jobs.created_by
    Fingerprint,      \* Fingerprint[j]: request_fingerprint of the call j would file
    Trace,            \* Trace[j]: the W3C trace id the call arrived under
    MaxAttempts,      \* worker.max_attempts
    MaxPending,       \* held_executions.max_pending_per_agent
    CompletionRetries,\* _COMPLETION_MAX_RETRIES
    MaxFaults,        \* bound: crashes, database errors and overstayed leases
    MayOverstay       \* may a live worker outlast its visibility timeout?

Jobs == 1 .. NumJobs

ASSUME NumJobsAssumption == NumJobs \in Nat
ASSUME OwnerAssumption == Owner \in [Jobs -> Agents]
ASSUME BudgetAssumption == MaxAttempts \in Nat \ {0}
ASSUME PendingAssumption == MaxPending \in Nat
ASSUME RetriesAssumption == CompletionRetries \in Nat
ASSUME FaultAssumption == MaxFaults \in Nat
ASSUME OverstayAssumption == MayOverstay \in BOOLEAN

VARIABLES
    kind,       \* jobs.kind, "none" until created
    status,     \* jobs.status
    visible,    \* jobs.visible_at: "null", "future" or "past"
    attempts,   \* jobs.attempts
    marker,     \* jobs.payload carries the _dispatched key
    traces,     \* an execution or event row names the job, its execution or its trace
    result,     \* the job's job_results row, "none" when absent
    approval,   \* held_executions.state of the hold on the job, "none" when absent
    lapsed,     \* the hold's expires_at has passed
    agent,      \* agents.status
    pc,         \* where each worker is in _process_job
    wjob,       \* the job of the worker's claim (meaningful while pc # "idle")
    wattempt,   \* jobs.attempts as returned by that claim
    outcome,    \* the handler's result body status
    retries,    \* completion writes already retried by this claim
    memory,     \* _dispatched_jobs of each worker process
    faults,     \* faults taken so far
    sent,       \* history: upstream calls put on the wire for the job
    ran,        \* history: a run of this job injected a credential or returned
    grace       \* history: workers past the actor re-check when their actor was archived

rowVars    == <<kind, status, visible, attempts, marker, traces, result>>
holdVars   == <<approval, lapsed>>
claimVars  == <<wjob, wattempt, outcome, retries>>
workerVars == <<pc, claimVars, memory>>
ghostVars  == <<sent, ran, grace>>
vars       == <<rowVars, holdVars, agent, workerVars, faults, ghostVars>>

Statuses  == {"absent", "queued", "running", "held",
              "completed", "failed", "dead_letter", "cancelled"}
Terminal  == {"completed", "failed", "dead_letter", "cancelled"}
Approvals == {"none", "pending", "approved", "denied", "expired", "withdrawn"}
Results   == {"none", "handler", "denied", "expired", "resume_failed"}
Points    == {"idle", "claimed", "import", "authorize", "recheck", "inject",
              "dispatch", "dispatched", "complete", "fail", "reject"}

\* The points of an execution before its upstream call.
BeforeDispatch == {"authorize", "recheck", "inject", "dispatch"}

Init ==
    /\ kind     = [j \in Jobs |-> "none"]
    /\ status   = [j \in Jobs |-> "absent"]
    /\ visible  = [j \in Jobs |-> "null"]
    /\ attempts = [j \in Jobs |-> 0]
    /\ marker   = [j \in Jobs |-> FALSE]
    /\ traces   = [j \in Jobs |-> FALSE]
    /\ result   = [j \in Jobs |-> "none"]
    /\ approval = [j \in Jobs |-> "none"]
    /\ lapsed   = [j \in Jobs |-> FALSE]
    /\ agent    = [a \in Agents |-> "active"]
    /\ pc       = [w \in Workers |-> "idle"]
    /\ wjob     = [w \in Workers |-> 0]
    /\ wattempt = [w \in Workers |-> 0]
    /\ outcome  = [w \in Workers |-> "none"]
    /\ retries  = [w \in Workers |-> 0]
    /\ memory   = [w \in Workers |-> {}]
    /\ faults   = 0
    /\ sent     = [j \in Jobs |-> 0]
    /\ ran      = [j \in Jobs |-> FALSE]
    /\ grace    = {}

-----------------------------------------------------------------------------
(* Filing: the broker's asynchronous route and its require-approval route. *)

\* The next job number to be created.
Fresh(j) == status[j] = "absent" /\ \A i \in Jobs : i < j => status[i] # "absent"

\* enqueue_job: a queued row with no claim, no deadline and no attempts.
Enqueue(j, k) ==
    /\ Fresh(j)
    /\ kind' = [kind EXCEPT ![j] = k]
    /\ status' = [status EXCEPT ![j] = "queued"]
    /\ UNCHANGED <<visible, attempts, marker, traces, result,
                   holdVars, agent, workerVars, faults, ghostVars>>

PendingWith(f) == {i \in Jobs : approval[i] = "pending" /\ Fingerprint[i] = f}
PendingOf(a)   == {i \in Jobs : approval[i] = "pending" /\ Owner[i] = a}

\* file_hold, run under the agent's advisory lock: an identical pending request
\* is joined (no row changes, so no step here), a full quota refuses, and
\* otherwise the held job and its pending approval are inserted together.
FileHold(j) ==
    /\ Fresh(j)
    /\ PendingWith(Fingerprint[j]) = {}
    /\ Cardinality(PendingOf(Owner[j])) < MaxPending
    /\ kind' = [kind EXCEPT ![j] = "execution"]
    /\ status' = [status EXCEPT ![j] = "held"]
    /\ approval' = [approval EXCEPT ![j] = "pending"]
    /\ UNCHANGED <<visible, attempts, marker, traces, result,
                   lapsed, agent, workerVars, faults, ghostVars>>

-----------------------------------------------------------------------------
(* Settling a hold: reviewer, filer, expiry sweep.                         *)

\* HeldExecutionRepository.decide and .withdraw compare-and-set the approval,
\* JobRepository.transition the job; either miss rolls the other back.
Settleable(j) == approval[j] = "pending" /\ status[j] = "held"

\* decide(approve): only an unexpired pending hold; its job becomes claimable.
Approve(j) ==
    /\ Settleable(j) /\ ~lapsed[j]
    /\ approval' = [approval EXCEPT ![j] = "approved"]
    /\ status' = [status EXCEPT ![j] = "queued"]
    /\ visible' = [visible EXCEPT ![j] = "null"]
    /\ UNCHANGED <<kind, attempts, marker, traces, result, lapsed,
                   agent, workerVars, faults, ghostVars>>

\* decide(deny): the job fails with the permission-denied problem as result.
Deny(j) ==
    /\ Settleable(j) /\ ~lapsed[j]
    /\ approval' = [approval EXCEPT ![j] = "denied"]
    /\ status' = [status EXCEPT ![j] = "failed"]
    /\ visible' = [visible EXCEPT ![j] = "null"]
    /\ result' = [result EXCEPT ![j] = "denied"]
    /\ UNCHANGED <<kind, attempts, marker, traces, lapsed,
                   agent, workerVars, faults, ghostVars>>

\* HeldExecutionService.withdraw: no expiry test, no result.
Withdraw(j) ==
    /\ Settleable(j)
    /\ approval' = [approval EXCEPT ![j] = "withdrawn"]
    /\ status' = [status EXCEPT ![j] = "cancelled"]
    /\ visible' = [visible EXCEPT ![j] = "null"]
    /\ UNCHANGED <<kind, attempts, marker, traces, result, lapsed,
                   agent, workerVars, faults, ghostVars>>

\* The database clock passes expires_at of a pending hold.
ApprovalLapse(j) ==
    /\ approval[j] = "pending" /\ ~lapsed[j]
    /\ lapsed' = [lapsed EXCEPT ![j] = TRUE]
    /\ UNCHANGED <<rowVars, approval, agent, workerVars, faults, ghostVars>>

\* Mutant: the sweep skips the holds of agents that are no longer active.
SweepActiveAgents ==
    LET due == {j \in Jobs : /\ approval[j] = "pending" /\ lapsed[j]
                             /\ agent[Owner[j]] = "active"}
    IN  /\ due # {}
        /\ approval' = [j \in Jobs |-> IF j \in due THEN "expired" ELSE approval[j]]
        /\ status' = [j \in Jobs |-> IF j \in due THEN "failed" ELSE status[j]]
        /\ visible' = [j \in Jobs |-> IF j \in due THEN "null" ELSE visible[j]]
        /\ result' = [j \in Jobs |-> IF j \in due THEN "expired" ELSE result[j]]
        /\ UNCHANGED <<kind, attempts, marker, traces, lapsed,
                       agent, workerVars, faults, ghostVars>>

\* expire_lapsed_approvals: every lapsed pending hold in one transaction; a job
\* that is no longer held is left alone by fail_held_job.
SweepApprovals ==
    LET due == {j \in Jobs : approval[j] = "pending" /\ lapsed[j]}
        failing == {j \in due : status[j] = "held"}
    IN  /\ due # {}
        /\ approval' = [j \in Jobs |-> IF j \in due THEN "expired" ELSE approval[j]]
        /\ status' = [j \in Jobs |-> IF j \in failing THEN "failed" ELSE status[j]]
        /\ visible' = [j \in Jobs |-> IF j \in failing THEN "null" ELSE visible[j]]
        /\ result' = [j \in Jobs |-> IF j \in failing THEN "expired" ELSE result[j]]
        /\ UNCHANGED <<kind, attempts, marker, traces, lapsed,
                       agent, workerVars, faults, ghostVars>>

\* The sweep's second transaction: the result of an approved execution is kept
\* for a retention window and then deleted; no other result has one.
RetentionSweep(j) ==
    /\ result[j] \in {"handler", "resume_failed"} /\ approval[j] = "approved"
    /\ result' = [result EXCEPT ![j] = "none"]
    /\ UNCHANGED <<kind, status, visible, attempts, marker, traces,
                   holdVars, agent, workerVars, faults, ghostVars>>

-----------------------------------------------------------------------------
(* Cancellation, by request and by the agent sweeps.                       *)

\* Mutant: cancel_if_active without the refusal of held executions.
CancelHeld(j) ==
    /\ status[j] \in {"queued", "running", "held"}
    /\ status' = [status EXCEPT ![j] = "cancelled"]
    /\ UNCHANGED <<kind, visible, attempts, marker, traces, result,
                   holdVars, agent, workerVars, faults, ghostVars>>

\* JobService.cancel: a held execution is refused (its hold settles it); an
\* active job is cancelled and its visible_at is left as it was.
Cancel(j) ==
    /\ status[j] \in {"queued", "running"}
    /\ status' = [status EXCEPT ![j] = "cancelled"]
    /\ UNCHANGED <<kind, visible, attempts, marker, traces, result,
                   holdVars, agent, workerVars, faults, ghostVars>>

QueuedExecutionsOf(a) ==
    {j \in Jobs : Owner[j] = a /\ status[j] = "queued" /\ kind[j] = "execution"}

CancelRows(S) ==
    /\ status' = [j \in Jobs |-> IF j \in S THEN "cancelled" ELSE status[j]]
    /\ visible' = [j \in Jobs |-> IF j \in S THEN "null" ELSE visible[j]]

\* AgentService.disable: the status flip and cancel_queued_executions_for_actor.
Disable(a) ==
    /\ agent[a] = "active"
    /\ agent' = [agent EXCEPT ![a] = "disabled"]
    /\ CancelRows(QueuedExecutionsOf(a))
    /\ UNCHANGED <<kind, attempts, marker, traces, result,
                   holdVars, workerVars, faults, ghostVars>>

\* AgentService.enable.
Enable(a) ==
    /\ agent[a] = "disabled"
    /\ agent' = [agent EXCEPT ![a] = "active"]
    /\ UNCHANGED <<rowVars, holdVars, workerVars, faults, ghostVars>>

\* _archive_and_sweep: pending holds withdrawn with their held jobs, queued
\* executions cancelled, running jobs left to the worker's actor re-check.
Archive(a) ==
    LET due == PendingOf(a)
        held == {j \in due : status[j] = "held"}
    IN  /\ agent[a] \in {"active", "disabled"}
        /\ agent' = [agent EXCEPT ![a] = "archived"]
        /\ approval' = [j \in Jobs |-> IF j \in due THEN "withdrawn" ELSE approval[j]]
        /\ CancelRows(held \cup QueuedExecutionsOf(a))
        /\ grace' = grace \cup {w \in Workers : /\ pc[w] \in {"inject", "dispatch"}
                                                /\ Owner[wjob[w]] = a}
        /\ UNCHANGED <<kind, attempts, marker, traces, result, lapsed,
                       workerVars, faults, sent, ran>>

\* The last transaction of AgentService.purge (after its archive step): queued
\* and running jobs of any kind are cancelled and the agent row is deleted.
Purge(a) ==
    /\ agent[a] = "archived"
    /\ agent' = [agent EXCEPT ![a] = "deleted"]
    /\ CancelRows({j \in Jobs : Owner[j] = a /\ status[j] \in {"queued", "running"}})
    /\ UNCHANGED <<kind, attempts, marker, traces, result,
                   holdVars, workerVars, faults, ghostVars>>

-----------------------------------------------------------------------------
(* The worker: claiming.                                                   *)

\* Mutant: RUNNING rows are never claimable again.
ClaimableQueued(j) == status[j] = "queued" /\ visible[j] \in {"null", "past"}

Claimable(j) ==
    \/ status[j] = "queued" /\ visible[j] \in {"null", "past"}
    \/ status[j] = "running" /\ visible[j] = "past"

\* _claim_next: one UPDATE takes the oldest claimable row, stamps a fresh
\* deadline and counts the attempt.
Claim(w, j) ==
    /\ pc[w] = "idle"
    /\ Claimable(j)
    /\ \A i \in Jobs : Claimable(i) => j <= i
    /\ status' = [status EXCEPT ![j] = "running"]
    /\ visible' = [visible EXCEPT ![j] = "future"]
    /\ attempts' = [attempts EXCEPT ![j] = @ + 1]
    /\ pc' = [pc EXCEPT ![w] = "claimed"]
    /\ wjob' = [wjob EXCEPT ![w] = j]
    /\ wattempt' = [wattempt EXCEPT ![w] = attempts[j] + 1]
    /\ outcome' = [outcome EXCEPT ![w] = "none"]
    /\ retries' = [retries EXCEPT ![w] = 0]
    /\ grace' = grace \ {w}
    /\ UNCHANGED <<kind, marker, traces, result, holdVars, agent, memory, faults,
                   sent, ran>>

\* Mutant: the status half of the claim check is missing.
HoldsAttempt(w) == attempts[wjob[w]] = wattempt[w]

\* The row is still RUNNING under this worker's claim.
HoldsClaim(w) == status[wjob[w]] = "running" /\ attempts[wjob[w]] = wattempt[w]

Goto(w, p) == pc' = [pc EXCEPT ![w] = p]

\* A step of the handler that changes nothing but its own position.
Step(w, p) ==
    /\ Goto(w, p)
    /\ UNCHANGED <<rowVars, holdVars, agent, claimVars, memory, faults, ghostVars>>

\* _process_job returns or is abandoned: the slot is free again.
Release(w) ==
    /\ pc' = [pc EXCEPT ![w] = "idle"]
    /\ wjob' = [wjob EXCEPT ![w] = 0]
    /\ wattempt' = [wattempt EXCEPT ![w] = 0]
    /\ outcome' = [outcome EXCEPT ![w] = "none"]
    /\ retries' = [retries EXCEPT ![w] = 0]

\* _dispatched_jobs.pop(job.id)
Forget(w) == memory' = [memory EXCEPT ![w] = @ \ {wjob[w]}]

\* A terminal write on the worker's job row: status set, visible_at cleared.
SettleRow(w, s) ==
    /\ status' = [status EXCEPT ![wjob[w]] = s]
    /\ visible' = [visible EXCEPT ![wjob[w]] = "null"]

-----------------------------------------------------------------------------
(* The worker: the re-claim gate, _refuse_approved_reclaim.                *)

\* Mutant: off by one, the second claim counts as a first.
IsLateReclaim(w) == kind[wjob[w]] = "execution" /\ wattempt[w] > 2

IsReclaim(w) == kind[wjob[w]] = "execution" /\ wattempt[w] > 1

\* Mutant: execution and event rows are not consulted.
EvidenceInRow(w) == marker[wjob[w]] \/ wjob[w] \in memory[w]

\* _has_execution_dispatched
Evidence(w) == marker[wjob[w]] \/ traces[wjob[w]] \/ wjob[w] \in memory[w]

\* First claims, imports, and re-claims that left no evidence go on to the handler.
PassGate(w) ==
    /\ pc[w] = "claimed"
    /\ IsReclaim(w) =>
          HoldsClaim(w) /\ approval[wjob[w]] # "approved" /\ ~Evidence(w)
    /\ Step(w, IF kind[wjob[w]] = "execution" THEN "authorize" ELSE "import")

\* The claim was lost meanwhile (cancelled, settled or claimed again): dropped.
RefuseLostClaim(w) ==
    /\ pc[w] = "claimed" /\ IsReclaim(w) /\ ~HoldsClaim(w)
    /\ Release(w) /\ Forget(w)
    /\ UNCHANGED <<rowVars, holdVars, agent, faults, ghostVars>>

\* An approved execution is never run twice, whatever its first claim did.
RefuseApproved(w) ==
    /\ pc[w] = "claimed" /\ IsReclaim(w) /\ HoldsClaim(w)
    /\ approval[wjob[w]] = "approved"
    /\ SettleRow(w, "failed")
    /\ result' = [result EXCEPT ![wjob[w]] = "resume_failed"]
    /\ Release(w) /\ Forget(w)
    /\ UNCHANGED <<kind, attempts, marker, traces, holdVars, agent, faults, ghostVars>>

\* Any other execution is refused once an earlier claim left evidence of a
\* dispatch.  No result row is written.
RefuseDispatched(w) ==
    /\ pc[w] = "claimed" /\ IsReclaim(w) /\ HoldsClaim(w)
    /\ approval[wjob[w]] # "approved" /\ Evidence(w)
    /\ SettleRow(w, "failed")
    /\ Release(w) /\ Forget(w)
    /\ UNCHANGED <<kind, attempts, marker, traces, result, holdVars, agent, faults, ghostVars>>

-----------------------------------------------------------------------------
(* The worker: ExecutionHandler.execute.                                   *)

\* A handler that returns is remembered in _dispatched_jobs, then completed.
\* The lifecycle event is best-effort: ev says whether it was written.
Return(w, body, ev) ==
    /\ Goto(w, "complete")
    /\ outcome' = [outcome EXCEPT ![w] = body]
    /\ memory' = [memory EXCEPT ![w] = @ \cup {wjob[w]}]
    /\ traces' = [traces EXCEPT ![wjob[w]] = @ \/ ev]
    /\ ran' = [ran EXCEPT ![wjob[w]] = TRUE]
    /\ UNCHANGED <<kind, status, visible, attempts, marker, result, holdVars, agent,
                   wjob, wattempt, retries, faults, sent, grace>>

\* A handler that raises goes to _handle_failure.
Raise(w) == Step(w, "fail")

\* QueuedExecutionAuthorizer.authorize: the actor is live and permitted, and the
\* rules now allow the call, or ask for an approval the job's hold carries.
AuthorizeAllow(w, verdict) ==
    /\ pc[w] = "authorize"
    /\ agent[Owner[wjob[w]]] = "active"
    /\ verdict = "require_approval" => approval[wjob[w]] = "approved"
    /\ Step(w, "recheck")

\* Every refusal of the authorizer (inactive actor, missing permission, rules
\* changed, approval missing), and the held payload no key can decrypt.
AuthorizeDeny(w, ev) ==
    /\ pc[w] = "authorize"
    /\ Return(w, "failed", ev)

\* The URL check or a read of the authorizer raises: nothing was sent.
AuthorizeRaise(w) ==
    /\ pc[w] = "authorize"
    /\ Raise(w)

\* Mutant: the re-check is skipped.
RecheckSkipped(w) == pc[w] = "recheck" /\ Step(w, "inject")

\* _recheck_actor: one live read right before any credential is touched.
RecheckPass(w) ==
    /\ pc[w] = "recheck"
    /\ agent[Owner[wjob[w]]] = "active"
    /\ Step(w, "inject")

RecheckDeny(w, ev) ==
    /\ pc[w] = "recheck"
    /\ agent[Owner[wjob[w]]] # "active"
    /\ Return(w, "failed", ev)

\* The jobs whose re-claim gate a credential.accessed event of job j satisfies:
\* same actor, same trace, created before the event.
SharesTrace(j) == {i \in Jobs : status[i] # "absent" /\ Owner[i] = Owner[j]
                                /\ Trace[i] = Trace[j]}

CommitAccessEvent(w) ==
    /\ traces' = [i \in Jobs |-> traces[i] \/ i \in SharesTrace(wjob[w])]
    /\ ran' = [ran EXCEPT ![wjob[w]] = TRUE]

\* CredentialOrchestrator.inject: credential.accessed is committed in its own
\* transaction before the call; a raise there fails the injection.
Inject(w) ==
    /\ pc[w] = "inject"
    /\ CommitAccessEvent(w)
    /\ Goto(w, "dispatch")
    /\ UNCHANGED <<kind, status, visible, attempts, marker, result, holdVars, agent,
                   claimVars, memory, faults, sent, grace>>

InjectRaise(w) ==
    /\ pc[w] = "inject"
    /\ Raise(w)

\* The event's commit is in doubt: it may have landed, the job is left RUNNING.
InjectInDoubt(w) ==
    /\ pc[w] = "inject" /\ faults < MaxFaults
    /\ faults' = faults + 1
    /\ Release(w)
    /\ \/ CommitAccessEvent(w)
       \/ UNCHANGED <<traces, ran>>
    /\ UNCHANGED <<kind, status, visible, attempts, marker, result, holdVars, agent, memory, sent, grace>>

\* PipelineExecutor.execute puts the call on the wire.
Dispatch(w) ==
    /\ pc[w] = "dispatch"
    /\ sent' = [sent EXCEPT ![wjob[w]] = @ + 1]
    /\ Goto(w, "dispatched")
    /\ UNCHANGED <<rowVars, holdVars, agent, claimVars, memory,
                   faults, ran, grace>>

\* A broker error before the wire (open circuit, full bulkhead) is a failed run.
DispatchRefused(w) ==
    /\ pc[w] = "dispatch"
    /\ Return(w, "failed", TRUE)

\* The second URL check, or a programming error before the broker is called.
DispatchRaise(w) ==
    /\ pc[w] = "dispatch"
    /\ Raise(w)

\* After the call nothing raises: record and lifecycle writes are best-effort.
Finish(w, body, ev) ==
    /\ pc[w] = "dispatched"
    /\ Return(w, body, ev)

-----------------------------------------------------------------------------
(* The worker: any other handler (imports and the like) is one step.       *)

ImportReturns(w) ==
    /\ pc[w] = "import"
    /\ Goto(w, "complete")
    /\ outcome' = [outcome EXCEPT ![w] = "completed"]
    /\ UNCHANGED <<rowVars, holdVars, agent, wjob, wattempt, retries, memory,
                   faults, ghostVars>>

ImportRaises(w) ==
    /\ pc[w] = "import"
    /\ \/ Raise(w)
       \/ Step(w, "reject")     \* NonRetryableJobError

-----------------------------------------------------------------------------
(* The worker: recording the outcome.                                      *)

\* The rows _complete_job writes while the job is RUNNING, under whichever
\* claim: an approved execution that ran to a failure is terminal "failed".
CompletionWrite(w) ==
    LET j == wjob[w] IN
    IF status[j] # "running"
    THEN UNCHANGED <<status, visible, result>>
    ELSE /\ SettleRow(w, IF approval[j] = "approved" /\ outcome[w] = "failed"
                         THEN "failed" ELSE "completed")
         /\ result' = [result EXCEPT ![j] = "handler"]

\* _mark_dispatched_best_effort, when its own write succeeds.
Mark(w) ==
    marker' = [marker EXCEPT ![wjob[w]] =
                   @ \/ (kind[wjob[w]] = "execution" /\ HoldsClaim(w))]

Complete(w) ==
    /\ pc[w] = "complete"
    /\ CompletionWrite(w)
    /\ Release(w) /\ Forget(w)
    /\ UNCHANGED <<kind, attempts, marker, traces, holdVars, agent, faults, ghostVars>>

\* The completion raised: marked best-effort, then retried or, past the
\* retries, left RUNNING.  Never requeued.
CompleteFails(w) ==
    /\ pc[w] = "complete" /\ faults < MaxFaults
    /\ faults' = faults + 1
    /\ Mark(w) \/ UNCHANGED marker
    /\ IF retries[w] >= CompletionRetries
       THEN Release(w)
       ELSE /\ retries' = [retries EXCEPT ![w] = @ + 1]
            /\ UNCHANGED <<pc, wjob, wattempt, outcome>>
    /\ UNCHANGED <<kind, status, visible, attempts, traces, result, holdVars, agent,
                   memory, ghostVars>>

\* The completion's commit is in doubt: landed or not, it is not retried.  The
\* marker is only written on a row still RUNNING, so not when it landed.
CompleteInDoubt(w) ==
    /\ pc[w] = "complete" /\ faults < MaxFaults
    /\ faults' = faults + 1
    /\ \/ CompletionWrite(w) /\ UNCHANGED marker
       \/ UNCHANGED <<status, visible, result>> /\ (Mark(w) \/ UNCHANGED marker)
    /\ Release(w)
    /\ UNCHANGED <<kind, attempts, traces, holdVars, agent, memory, ghostVars>>

\* _handle_failure on a claim that still holds: an approved execution fails, a
\* spent budget dead-letters, anything else is requeued behind a backoff.
HandleFailure(w) ==
    /\ pc[w] = "fail"
    /\ IF ~HoldsClaim(w) THEN UNCHANGED <<status, visible>>
       ELSE CASE kind[wjob[w]] = "execution" /\ approval[wjob[w]] = "approved" ->
                     SettleRow(w, "failed")
              [] ~(kind[wjob[w]] = "execution" /\ approval[wjob[w]] = "approved")
                 /\ wattempt[w] >= MaxAttempts -> SettleRow(w, "dead_letter")
              [] OTHER -> /\ status' = [status EXCEPT ![wjob[w]] = "queued"]
                          /\ visible' = [visible EXCEPT ![wjob[w]] = "future"]
    /\ Release(w)
    /\ UNCHANGED <<kind, attempts, marker, traces, result, holdVars, agent, memory, faults, ghostVars>>

\* _fail_claimed_job
FailClaimed(w) ==
    /\ pc[w] = "reject"
    /\ IF HoldsClaim(w) THEN SettleRow(w, "failed") ELSE UNCHANGED <<status, visible>>
    /\ Release(w)
    /\ UNCHANGED <<kind, attempts, marker, traces, result, holdVars, agent, memory, faults, ghostVars>>

-----------------------------------------------------------------------------
(* Faults and the passing of time.                                         *)

\* The process dies or is cancelled at a drain deadline: its claim stays
\* RUNNING in the database and _dispatched_jobs is gone.
Crash(w) ==
    /\ pc[w] # "idle" /\ faults < MaxFaults
    /\ faults' = faults + 1
    /\ Release(w)
    /\ memory' = [memory EXCEPT ![w] = {}]
    /\ UNCHANGED <<rowVars, holdVars, agent, ghostVars>>

\* A database error while the gate or the failure is being written escapes to
\* _run_job, which logs it: the row stays RUNNING.
OutcomeUnrecorded(w) ==
    /\ pc[w] \in {"claimed", "fail", "reject"} /\ faults < MaxFaults
    /\ faults' = faults + 1
    /\ Release(w)
    /\ UNCHANGED <<rowVars, holdVars, agent, memory,
                   ghostVars>>

\* A live worker process is working on the row's current claim.
Worked(j) == \E w \in Workers : pc[w] # "idle" /\ wjob[w] = j /\ wattempt[w] = attempts[j]

\* The visibility timeout of a RUNNING row passes.  On a live worker that is a
\* fault: the timeout was sized below the handler's run time.
LeaseLapse(j) ==
    /\ status[j] = "running" /\ visible[j] = "future"
    /\ IF Worked(j) THEN MayOverstay /\ faults < MaxFaults /\ faults' = faults + 1
                    ELSE UNCHANGED faults
    /\ visible' = [visible EXCEPT ![j] = "past"]
    /\ UNCHANGED <<kind, status, attempts, marker, traces, result, holdVars, agent,
                   workerVars, ghostVars>>

\* The backoff of a requeued row passes.
BackoffLapse(j) ==
    /\ status[j] = "queued" /\ visible[j] = "future"
    /\ visible' = [visible EXCEPT ![j] = "past"]
    /\ UNCHANGED <<kind, status, attempts, marker, traces, result, holdVars, agent,
                   workerVars, faults, ghostVars>>

-----------------------------------------------------------------------------
File == \E j \in Jobs : FileHold(j) \/ \E k \in {"execution", "import"} : Enqueue(j, k)

Review == \E j \in Jobs : Approve(j) \/ Deny(j) \/ Withdraw(j) \/ Cancel(j)

AgentSweep == \E a \in Agents : Disable(a) \/ Enable(a) \/ Archive(a) \/ Purge(a)

Gate(w) == PassGate(w) \/ RefuseLostClaim(w) \/ RefuseApproved(w) \/ RefuseDispatched(w)

Execute(w) ==
    \/ \E v \in {"allow", "require_approval"} : AuthorizeAllow(w, v)
    \/ \E ev \in BOOLEAN : AuthorizeDeny(w, ev) \/ RecheckDeny(w, ev)
    \/ RecheckPass(w) \/ AuthorizeRaise(w)
    \/ Inject(w) \/ InjectRaise(w)
    \/ Dispatch(w) \/ DispatchRefused(w) \/ DispatchRaise(w)
    \/ \E body \in {"completed", "failed"}, ev \in BOOLEAN : Finish(w, body, ev)
    \/ ImportReturns(w) \/ ImportRaises(w)

Record(w) == Complete(w) \/ HandleFailure(w) \/ FailClaimed(w)

Work(w) == (\E j \in Jobs : Claim(w, j)) \/ Gate(w) \/ Execute(w) \/ Record(w)

Fault(w) == Crash(w) \/ OutcomeUnrecorded(w) \/ InjectInDoubt(w)
            \/ CompleteFails(w) \/ CompleteInDoubt(w)

Sweep == SweepApprovals \/ \E j \in Jobs : RetentionSweep(j)

Time == \E j \in Jobs : LeaseLapse(j) \/ BackoffLapse(j) \/ ApprovalLapse(j)

Next ==
    \/ File \/ Review \/ Sweep \/ AgentSweep \/ Time
    \/ \E w \in Workers : Work(w) \/ Fault(w)

Spec == Init /\ [][Next]_vars

\* Workers keep polling and every handler step is bounded by a timeout; the
\* clock advances; the worker loop runs its sweep every sweep_interval_s.
Fairness ==
    /\ \A w \in Workers : WF_vars(Work(w))
    /\ \A j \in Jobs : WF_vars(~Worked(j) /\ LeaseLapse(j)) /\ WF_vars(BackoffLapse(j))
                       /\ WF_vars(ApprovalLapse(j))
    /\ WF_vars(SweepApprovals)

FairSpec == Spec /\ Fairness

-----------------------------------------------------------------------------
(* Properties.                                                             *)

TypeOK ==
    /\ kind \in [Jobs -> {"none", "execution", "import"}]
    /\ status \in [Jobs -> Statuses]
    /\ visible \in [Jobs -> {"null", "future", "past"}]
    /\ attempts \in [Jobs -> Nat]
    /\ marker \in [Jobs -> BOOLEAN]
    /\ traces \in [Jobs -> BOOLEAN]
    /\ result \in [Jobs -> Results]
    /\ approval \in [Jobs -> Approvals]
    /\ lapsed \in [Jobs -> BOOLEAN]
    /\ agent \in [Agents -> {"active", "disabled", "archived", "deleted"}]
    /\ pc \in [Workers -> Points]
    /\ wjob \in [Workers -> Jobs \cup {0}]
    /\ wattempt \in [Workers -> Nat]
    /\ outcome \in [Workers -> {"none", "completed", "failed"}]
    /\ retries \in [Workers -> 0 .. CompletionRetries]
    /\ memory \in [Workers -> SUBSET Jobs]
    /\ faults \in 0 .. MaxFaults
    /\ sent \in [Jobs -> Nat]
    /\ ran \in [Jobs -> BOOLEAN]
    /\ grace \in SUBSET Workers

\* "An approved call runs at most once": however many claims, crashes, lost
\* commits and overstayed leases the job goes through, _refuse_approved_reclaim
\* and _handle_failure leave at most one upstream call.
ApprovedRunsOnce == \A j \in Jobs : approval[j] = "approved" => sent[j] <= 1

\* A call a rule holds back is never sent unless a reviewer approved it: no path
\* from denial, expiry, withdrawal or an open hold reaches the wire.
OnlyApprovedHoldsRun ==
    \A j \in Jobs : approval[j] \in {"pending", "denied", "expired", "withdrawn"} => sent[j] = 0

\* A hold and its job, settled by different services, always agree: decide,
\* withdraw, the expiry sweep and the archive sweep never strand one of the two.
HoldMatchesJob ==
    \A j \in Jobs :
        /\ approval[j] = "pending" <=> status[j] = "held"
        /\ approval[j] = "denied" => status[j] = "failed" /\ result[j] = "denied"
        /\ approval[j] = "expired" => status[j] = "failed" /\ result[j] = "expired"
        /\ approval[j] = "withdrawn" => status[j] = "cancelled" /\ result[j] = "none"

\* With a visibility timeout sized above the run time, a failed completion
\* write, a lost commit or a worker crash never sends an execution twice.
ExecutionRunsOnce == \A j \in Jobs : sent[j] <= 1

\* A settled job stays settled: no late completion, requeue, refusal, sweep or
\* cancel moves a row out of a terminal status or replaces its result.
SettledStep ==
    \A j \in Jobs : status[j] \in Terminal =>
        /\ status'[j] = status[j]
        /\ result'[j] \in {result[j], "none"}
        /\ attempts'[j] = attempts[j]

\* Every step keeps settled jobs: a terminal status written by _complete_job,
\* _handle_failure, a hold's verdict or a cancel is final.
SettledStaysSettled == [][SettledStep]_vars

\* Only the worker that holds the claim moves a running job on, except for the
\* first writer of a completion: a requeue never undoes another worker's claim.
RequeueStep ==
    \A j \in Jobs : status[j] = "running" /\ status'[j] = "queued" =>
        \E w \in Workers : /\ pc[w] = "fail" /\ wjob[w] = j
                           /\ wattempt[w] = attempts[j]
                           /\ attempts[j] < MaxAttempts

\* Every requeue of a running job is a _handle_failure of the worker whose claim
\* the row still shows, within the retry budget.
RequeueOnlyByClaimHolder == [][RequeueStep]_vars

\* Archiving an agent stops its calls: a run reaches a credential or the wire
\* for an archived agent only if it had passed the re-check before the archive.
ArchivedAgentStopped ==
    \A w \in Workers :
        pc[w] \in {"inject", "dispatch"} /\ agent[Owner[wjob[w]]] \in {"archived", "deleted"}
            => w \in grace

\* Once no more faults occur, every queued or claimed job reaches a terminal
\* status: an orphaned claim is recovered, a requeue comes back, a poison job
\* is dead-lettered.
JobsSettle == \A j \in Jobs : status[j] \in {"queued", "running"} ~> status[j] \in Terminal

\* No hold waits for ever: decided, withdrawn or expired, also when its agent
\* was disabled or archived after filing it.
HoldsSettle == \A j \in Jobs : approval[j] = "pending" ~> approval[j] # "pending"

\* The abstract gate: a hold is "lapsed" once its window is over, "refused"
\* when denied, expired or withdrawn; only held calls are its calls.
GateOf(j) ==
    CASE approval[j] = "pending" -> IF lapsed[j] THEN "lapsed" ELSE "waiting"
      [] approval[j] = "approved" -> "released"
      [] approval[j] \in {"denied", "expired", "withdrawn"} -> "refused"
      [] OTHER -> "none"

Abstract == INSTANCE ApprovalGate WITH
                Calls <- Jobs,
                gate  <- [j \in Jobs |-> GateOf(j)],
                out   <- [j \in Jobs |-> IF approval[j] = "none" THEN 0 ELSE sent[j]]

\* The queue, its workers and its sweeps implement ApprovalGate.
ImplementsGate == Abstract!GateSpec

\* jobs.attempts against worker.max_attempts: "the retry budget is enforced".
AttemptsWithinBudget == \A j \in Jobs : attempts[j] <= MaxAttempts

\* "True when an earlier claim of job already injected credentials or
\* dispatched": an execution is only refused at re-claim for its own run.
RefusedOnlyAfterOwnRun ==
    \A j \in Jobs : kind[j] = "execution" /\ approval[j] = "none" /\ status[j] = "failed"
                       => ran[j]

=============================================================================
