----------------------------- MODULE WorkerLoop -----------------------------
(***************************************************************************)
(* The event loop side of one job worker: WorkerLoop.run with its polls,   *)
(* the wake-up that an enqueue in the same process sends, and the shutdown *)
(* that drains it.  What a claimed job does to its row is JobQueue's; here *)
(* a job is only claimable, claimed, running or over.                      *)
(*                                                                         *)
(* A step is what runs between two awaits.  asyncio.Event.set releases the *)
(* waiter of the moment even if the event is cleared before the waiter     *)
(* runs again: released says it for drain()'s wait on _idle.               *)
(***************************************************************************)
EXTENDS Naturals, FiniteSets

CONSTANTS
    Jobs,
    Sessions,     \* database sessions that enqueue jobs
    Foreign,      \* those of another process
    NoJob,        \* a claim that found nothing
    Concurrency,  \* worker.concurrency
    MaxFaults     \* bound: polls and jobs that fail

ASSUME LoopAssumption ==
    /\ Foreign \subseteq Sessions
    /\ NoJob \notin Jobs
    /\ Concurrency \in Nat \ {0}
    /\ MaxFaults \in Nat

VARIABLES
    job,         \* where each job stands
    txn,         \* jobs inserted by each session's last transaction
    hook,        \* each session's after_commit listener: none, armed or firing
    signal,      \* a wake.set that call_soon_threadsafe has scheduled
    wake,        \* _wake
    pc,          \* the await run() is at
    got,         \* what the claim read
    failed,      \* the last poll raised
    running,     \* _running
    draining,    \* _draining
    claiming,    \* _claiming
    idle,        \* _idle
    inFlight,    \* _in_flight
    drain,       \* the call of drain(): no, waiting, idle (True) or late (False)
    released,    \* its wait on _idle has been released
    faults       \* failures so far

loopVars  == <<pc, got, failed>>
flagVars  == <<running, draining>>
idleVars  == <<claiming, idle, released, inFlight>>
queueVars == <<txn, hook, signal>>
vars == <<job, queueVars, wake, loopVars, flagVars, idleVars, drain, faults>>

\* due: committed; announced: and this loop was sent a wake-up for it; later:
\* QUEUED or RUNNING with a visible_at still to come.
Claimable == {j \in Jobs : job[j] \in {"announced", "due"}}

Init ==
    /\ job = [j \in Jobs |-> "new"]
    /\ txn = [s \in Sessions |-> {}]
    /\ hook = [s \in Sessions |-> "none"]
    /\ signal = FALSE /\ wake = FALSE
    /\ pc = "start" /\ got = NoJob /\ failed = FALSE
    /\ running = FALSE /\ draining = FALSE
    /\ claiming = FALSE /\ idle = TRUE /\ released = FALSE /\ inFlight = {}
    /\ drain = "no"
    /\ faults = 0

-----------------------------------------------------------------------------
(* Enqueuers.                                                              *)

Enqueue(s, j) ==
    /\ job[j] = "new"
    /\ hook[s] # "firing"
    /\ job' = [job EXCEPT ![j] = "inserted"]
    /\ txn' = [txn EXCEPT ![s] = @ \cup {j}]
    /\ hook' = [hook EXCEPT ![s] = "armed"]
    /\ UNCHANGED <<signal, wake, loopVars, flagVars, idleVars, drain, faults>>

\* run() subscribes before its first await and unsubscribes as it ends.
Subscribed == pc \notin {"start", "ended"}

\* The commit: its jobs are there for every worker.  A listener a rollback left
\* behind fires on the session's next commit, whatever it holds; another
\* process's listener tells this loop nothing and is not followed.
Commit(s) ==
    /\ hook[s] = "armed"
    /\ job' = [j \in Jobs |-> IF j \in txn[s] THEN "due" ELSE job[j]]
    /\ IF s \in Foreign
       THEN hook' = [hook EXCEPT ![s] = "none"] /\ txn' = [txn EXCEPT ![s] = {}]
       ELSE hook' = [hook EXCEPT ![s] = "firing"] /\ UNCHANGED txn
    /\ UNCHANGED <<signal, wake, loopVars, flagVars, idleVars, drain, faults>>

\* The one-shot listener, called once the commit went through.
AfterCommit(s) ==
    /\ hook[s] = "firing"
    /\ job' = [j \in Jobs |-> IF j \in txn[s] /\ job[j] = "due" /\ Subscribed THEN "announced"
                              ELSE job[j]]
    /\ txn' = [txn EXCEPT ![s] = {}]
    /\ hook' = [hook EXCEPT ![s] = "none"]
    /\ signal' = (signal \/ Subscribed)
    /\ UNCHANGED <<wake, loopVars, flagVars, idleVars, drain, faults>>

Rollback(s) ==
    /\ hook[s] = "armed"
    /\ txn[s] # {}
    /\ job' = [j \in Jobs |-> IF j \in txn[s] THEN "new" ELSE job[j]]
    /\ txn' = [txn EXCEPT ![s] = {}]
    /\ UNCHANGED <<hook, signal, wake, loopVars, flagVars, idleVars, drain, faults>>

Notified ==
    /\ signal
    /\ signal' = FALSE
    /\ wake' = TRUE
    /\ UNCHANGED <<job, txn, hook, loopVars, flagVars, idleVars, drain, faults>>

-----------------------------------------------------------------------------
(* The loop.                                                               *)

\* _mark_idle_if_quiet, with the values the two fields have just been given.
MarkIdleIfQuiet(cl, fl) ==
    LET quiet == ~cl /\ fl = {}
    IN  /\ idle' = (idle \/ quiet)
        /\ released' = (released \/ (quiet /\ drain = "waiting"))

\* The head of run()'s while: wake is cleared before the poll, not after it.
Turn ==
    IF running
    THEN pc' = "sweep" /\ wake' = FALSE /\ failed' = FALSE
    ELSE pc' = "closing" /\ UNCHANGED <<wake, failed>>

\* run() up to its first await; a drain() that came before it has set _draining.
Start ==
    /\ pc = "start"
    /\ running' = TRUE
    /\ pc' = "sweep"
    /\ wake' = FALSE
    /\ UNCHANGED <<job, queueVars, got, failed, draining, idleVars, drain, faults>>

\* The condition of _poll's while, with fl the jobs in flight.
MayClaim(fl) == running /\ ~draining /\ Cardinality(fl) < Concurrency

SweepEnds ==
    /\ pc = "sweep"
    /\ IF MayClaim(inFlight)
       THEN pc' = "claim" /\ claiming' = TRUE /\ idle' = FALSE
       ELSE pc' = "wait" /\ UNCHANGED <<claiming, idle>>
    /\ UNCHANGED <<job, queueVars, wake, got, failed, flagVars, released, inFlight,
                   drain, faults>>

\* The claim's statement and commit.
ClaimReads ==
    /\ pc = "claim"
    /\ \/ /\ Claimable = {}
          /\ got' = NoJob
          /\ UNCHANGED job
       \/ \E j \in Claimable :
            /\ got' = j
            /\ job' = [job EXCEPT ![j] = "claimed"]
    /\ pc' = "claimed"
    /\ UNCHANGED <<queueVars, wake, failed, flagVars, idleVars, drain, faults>>

\* Mutant: the wake-up is cleared on the way to the wait, not before the poll.
ClaimReturnsNoneClearing ==
    /\ pc = "claimed" /\ got = NoJob
    /\ claiming' = FALSE
    /\ MarkIdleIfQuiet(FALSE, inFlight)
    /\ pc' = "wait"
    /\ wake' = FALSE
    /\ UNCHANGED <<job, queueVars, got, failed, flagVars, inFlight, drain, faults>>

ClaimReturnsNone ==
    /\ pc = "claimed" /\ got = NoJob
    /\ claiming' = FALSE
    /\ MarkIdleIfQuiet(FALSE, inFlight)
    /\ pc' = "wait"
    /\ UNCHANGED <<job, queueVars, wake, got, failed, flagVars, inFlight, drain, faults>>

\* Mutant: the end of every claim marks the loop idle when no job is in flight.
LeaveClaimMarking == released' = (released \/ (inFlight = {} /\ drain = "waiting"))

\* What the end of a claim that found a job does to _idle: nothing, so that a
\* waiting drain() is not released before _start_job tracks the job.
LeaveClaim == UNCHANGED released

\* _start_job, then _poll's next slot or, with none, the next poll at once.
ClaimReturnsJob ==
    /\ pc = "claimed" /\ got # NoJob
    /\ job' = [job EXCEPT ![got] = "running"]
    /\ inFlight' = inFlight \cup {got}
    /\ got' = NoJob
    /\ idle' = FALSE
    /\ LeaveClaim
    /\ IF MayClaim(inFlight')
       THEN pc' = "claim" /\ claiming' = TRUE /\ UNCHANGED <<wake, failed>>
       ELSE claiming' = FALSE /\ Turn
    /\ UNCHANGED <<queueVars, flagVars, drain, faults>>

\* Mutant: a poll that raises ends run().
AfterErrorEnds == {"closing"}

\* Where run() goes after a poll raised: the reconnect backoff when the
\* connection was lost, otherwise the wait of a poll that found nothing.
AfterError == {"backoff", "wait"}

SweepRaises ==
    /\ pc = "sweep"
    /\ faults < MaxFaults /\ faults' = faults + 1
    /\ pc' = "backoff"
    /\ failed' = TRUE
    /\ UNCHANGED <<job, queueVars, wake, got, flagVars, idleVars, drain>>

\* A claim whose commit went through before its reply was lost leaves its job
\* RUNNING until the visibility timeout.
ClaimRaises ==
    /\ pc \in {"claim", "claimed"}
    /\ faults < MaxFaults /\ faults' = faults + 1
    /\ pc' \in AfterError
    /\ failed' = TRUE
    /\ job' = [j \in Jobs |-> IF job[j] = "claimed" THEN "later" ELSE job[j]]
    /\ got' = NoJob
    /\ claiming' = FALSE
    /\ MarkIdleIfQuiet(FALSE, inFlight)
    /\ UNCHANGED <<queueVars, wake, flagVars, inFlight, drain>>

\* _wait_for_wake: the event, or the poll interval.
Waited ==
    /\ pc = "wait"
    /\ Turn
    /\ UNCHANGED <<job, queueVars, got, flagVars, idleVars, drain, faults>>

\* The backoff is a plain sleep: no wake-up cuts it short.
BackoffEnds ==
    /\ pc = "backoff"
    /\ Turn
    /\ UNCHANGED <<job, queueVars, got, flagVars, idleVars, drain, faults>>

\* The TaskGroup has waited for its children.
Ends ==
    /\ pc \in {"closing", "aborting"}
    /\ \A j \in inFlight : job[j] # "running"
    /\ pc' = "ended"
    /\ running' = FALSE
    /\ UNCHANGED <<job, queueVars, wake, got, failed, draining, idleVars, drain, faults>>

-----------------------------------------------------------------------------
(* The jobs' tasks.                                                        *)

\* A job completes, or its row waits: for a retry, or for the reclaim of an
\* outcome that was not recorded.  An exception never leaves _run_job.
JobEnds(j) ==
    /\ job[j] = "running"
    /\ \/ job' = [job EXCEPT ![j] = "done"] /\ UNCHANGED faults
       \/ /\ faults < MaxFaults /\ faults' = faults + 1
          /\ job' = [job EXCEPT ![j] = "later"]
    /\ UNCHANGED <<queueVars, wake, loopVars, flagVars, idleVars, drain>>

\* _on_job_done, which the event loop calls after the task has ended.
OnJobDone(j) ==
    /\ j \in inFlight /\ job[j] # "running"
    /\ inFlight' = inFlight \ {j}
    /\ MarkIdleIfQuiet(claiming, inFlight')
    /\ wake' = TRUE
    /\ UNCHANGED <<job, queueVars, loopVars, flagVars, claiming, drain, faults>>

\* visible_at passes; the callback of the job's task has long run.
BecomesDue(j) ==
    /\ job[j] = "later" /\ j \notin inFlight
    /\ job' = [job EXCEPT ![j] = "due"]
    /\ UNCHANGED <<queueVars, wake, loopVars, flagVars, idleVars, drain, faults>>

-----------------------------------------------------------------------------
(* Shutdown: _stop_worker drains, then cancels the task; another caller of *)
(* drain() lets the loop end by itself.                                    *)

\* drain() up to its first await; with _idle set there is none.
Drain ==
    /\ drain = "no"
    /\ draining' = TRUE
    /\ wake' = TRUE
    /\ IF idle THEN drain' = "idle" /\ running' = FALSE
               ELSE drain' = "waiting" /\ UNCHANGED running
    /\ UNCHANGED <<job, queueVars, loopVars, idleVars, faults>>

DrainReturns(verdict) ==
    /\ drain = "waiting"
    /\ drain' = verdict
    /\ running' = FALSE
    /\ wake' = TRUE
    /\ UNCHANGED <<job, queueVars, loopVars, draining, idleVars, faults>>

DrainIdle == released /\ DrainReturns("idle")
DrainTimeout == DrainReturns("late")

\* The cancellation is raised at the await run() is at, and the TaskGroup cancels
\* its children: their rows stay RUNNING.  A task that never ran just ends.
Cancel ==
    /\ drain \in {"idle", "late"}
    /\ pc \notin {"aborting", "ended"}
    /\ pc' = IF pc = "start" THEN "ended" ELSE "aborting"
    /\ job' = [j \in Jobs |-> IF job[j] \in {"claimed", "running"} THEN "later" ELSE job[j]]
    /\ got' = NoJob
    /\ claiming' = FALSE
    /\ IF claiming THEN MarkIdleIfQuiet(FALSE, inFlight) ELSE UNCHANGED <<idle, released>>
    /\ UNCHANGED <<queueVars, wake, failed, flagVars, inFlight, drain, faults>>

Loop ==
    \/ Start
    \/ SweepEnds
    \/ ClaimReads
    \/ ClaimReturnsNone
    \/ ClaimReturnsJob
    \/ Waited
    \/ BackoffEnds
    \/ Ends

Next ==
    \/ \E s \in Sessions : (\E j \in Jobs : Enqueue(s, j)) \/ Commit(s) \/ AfterCommit(s) \/ Rollback(s)
    \/ Notified
    \/ Loop
    \/ SweepRaises
    \/ ClaimRaises
    \/ \E j \in Jobs : JobEnds(j) \/ OnJobDone(j) \/ BecomesDue(j)
    \/ Drain
    \/ DrainIdle
    \/ DrainTimeout
    \/ Cancel

Spec == Init /\ [][Next]_vars

\* The event loop runs what is ready, sleeps and intervals end, and a handler
\* returns (JobQueue bounds it).  Failures are finitely many: an outage ends.
FairSpec ==
    /\ Spec
    /\ WF_vars(Loop)
    /\ WF_vars(Notified)
    /\ \A j \in Jobs : WF_vars(JobEnds(j)) /\ WF_vars(OnJobDone(j))

-----------------------------------------------------------------------------
(* Properties.                                                             *)

\* When drain() has returned True the worker holds no work and will start none:
\* no claim is under way, no claimed job waits to be started and no job's task
\* runs, so the shared HTTP client can be closed (WorkerLoop.drain, _stop_worker).
DrainedIsQuiet ==
    drain = "idle" =>
        /\ inFlight = {}
        /\ ~claiming
        /\ \A j \in Jobs : job[j] \notin {"claimed", "running"}

\* No wake-up is lost: a loop that sleeps out the poll interval with a free slot,
\* with no wake-up set or on its way and after a poll that did not fail, leaves no
\* job behind that it was told of (WorkerLoop.run's clear before the poll,
\* notify_on_commit).
NoWakeupLost ==
    /\ pc = "wait" /\ running /\ ~draining /\ ~wake /\ ~signal /\ ~failed
    /\ Cardinality(inFlight) < Concurrency
    => \A j \in Jobs : job[j] # "announced"

\* While the worker is not being shut down every claimable job is through
\* failed polls, lost replies and jobs enqueued by other processes, which announce
\* nothing ("a single poll must never kill the loop", WorkerLoop.run).
ClaimableJobsStart ==
    \A j \in Jobs :
        job[j] \in {"announced", "due"} ~> (job[j] \in {"running", "later"} \/ drain # "no")

=============================================================================
