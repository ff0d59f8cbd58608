--------------------------- MODULE JobQueueProofs ---------------------------
(***************************************************************************)
(* Safety of the job queue for any number of jobs, workers, agents,        *)
(* faults and retries, with leases that may or may not be overstayed; that *)
(* it implements ApprovalGate; and what its steps may never do.            *)
(***************************************************************************)
EXTENDS JobQueue, TLAPS

(* The inductive invariant, part by part. *)

\* A busy worker works on a claim the row has counted.
ClaimsCounted ==
    \A w \in Workers : pc[w] # "idle" =>
        /\ wjob[w] \in Jobs
        /\ wattempt[w] >= 1
        /\ wattempt[w] <= attempts[wjob[w]]

\* No two workers work on the same attempt of a job.
ClaimsDistinct ==
    \A v, w \in Workers :
        v # w /\ pc[v] # "idle" /\ pc[w] # "idle" /\ wjob[v] = wjob[w]
            => wattempt[v] # wattempt[w]

\* A job whose hold is open or was refused has never been claimed, and an open
\* hold's job has no result; nothing is sent for a job never claimed.
UnclaimedBeforeApproval ==
    \A j \in Jobs :
        /\ approval[j] \in {"pending", "denied", "expired", "withdrawn"} => attempts[j] = 0
        /\ status[j] = "absent" => attempts[j] = 0 /\ approval[j] = "none"
        /\ status[j] \in {"absent", "held"} => result[j] = "none"
        /\ attempts[j] = 0 => sent[j] = 0

\* Past the re-claim gate, only a first attempt belongs to an approved job.
ReclaimsUnapproved ==
    \A w \in Workers : pc[w] \in BeforeDispatch /\ wattempt[w] > 1
                          => approval[wjob[w]] # "approved"

\* While the first attempt has not reached the wire, an approved job was not sent.
FirstAttemptUnsent ==
    \A w \in Workers :
        /\ pc[w] \in BeforeDispatch \cup {"claimed"}
        /\ wattempt[w] = 1
        /\ approval[wjob[w]] = "approved"
        => sent[wjob[w]] = 0

Inv ==
    /\ TypeOK
    /\ ClaimsCounted
    /\ ClaimsDistinct
    /\ UnclaimedBeforeApproval
    /\ ReclaimsUnapproved
    /\ FirstAttemptUnsent
    /\ HoldMatchesJob
    /\ ApprovedRunsOnce

-----------------------------------------------------------------------------
(* Four frames: what a step must leave alone for the claims to stay sound. *)

\* A step of the database rows only: no claim moves, nothing is sent, and a
\* hold becomes approved only on a job never claimed.
LEMMA RowFrame ==
    ASSUME Inv, TypeOK', UnclaimedBeforeApproval', HoldMatchesJob',
           UNCHANGED <<attempts, pc, wjob, wattempt, sent>>,
           \A j \in Jobs : approval'[j] = "approved" =>
               approval[j] = "approved" \/ attempts[j] = 0
    PROVE  Inv'
<1>1. ClaimsCounted' /\ ClaimsDistinct'
  BY DEF Inv, ClaimsCounted, ClaimsDistinct
<1>2. ReclaimsUnapproved' /\ FirstAttemptUnsent'
  BY DEF Inv, TypeOK, ClaimsCounted, UnclaimedBeforeApproval, ReclaimsUnapproved,
         FirstAttemptUnsent, BeforeDispatch
<1>3. ApprovedRunsOnce'
  BY DEF Inv, TypeOK, UnclaimedBeforeApproval, ApprovedRunsOnce
<1> QED
  BY <1>1, <1>2, <1>3 DEF Inv

\* A worker moves on with its claim: it may enter the run-up to the wire only
\* from there, on a first attempt, or for a job no approval covers.
LEMMA MoveFrame ==
    ASSUME Inv, TypeOK', UnclaimedBeforeApproval', HoldMatchesJob',
           NEW w \in Workers, NEW p \in Points, pc[w] # "idle", p # "claimed",
           pc' = [pc EXCEPT ![w] = p],
           UNCHANGED <<attempts, approval, wjob, wattempt, sent>>,
           p \in BeforeDispatch =>
               \/ pc[w] \in BeforeDispatch
               \/ pc[w] = "claimed" /\ (wattempt[w] = 1 \/ approval[wjob[w]] # "approved")
    PROVE  Inv'
<1>1. ClaimsCounted' /\ ClaimsDistinct'
  BY DEF Inv, TypeOK, ClaimsCounted, ClaimsDistinct
<1>2. ReclaimsUnapproved' /\ FirstAttemptUnsent'
  BY DEF Inv, TypeOK, ClaimsCounted, ReclaimsUnapproved, FirstAttemptUnsent, BeforeDispatch
<1> QED
  BY <1>1, <1>2 DEF Inv, ApprovedRunsOnce

\* A worker lets its claim go.
LEMMA ReleaseFrame ==
    ASSUME Inv, TypeOK', UnclaimedBeforeApproval', HoldMatchesJob',
           NEW w \in Workers, Release(w),
           UNCHANGED <<attempts, approval, sent>>
    PROVE  Inv'
<1>1. ClaimsCounted' /\ ClaimsDistinct'
  BY DEF Inv, TypeOK, ClaimsCounted, ClaimsDistinct, Release
<1>2. ReclaimsUnapproved' /\ FirstAttemptUnsent'
  BY DEF Inv, TypeOK, ReclaimsUnapproved, FirstAttemptUnsent, BeforeDispatch, Release
<1> QED
  BY <1>1, <1>2 DEF Inv, ApprovedRunsOnce

\* What a worker writes on its own job row agrees with the hold: the job was
\* claimed, so its hold is absent or approved.
LEMMA WorkerRows ==
    ASSUME Inv, NEW w \in Workers, pc[w] # "idle",
           \A j \in Jobs : j # wjob[w] => status'[j] = status[j] /\ result'[j] = result[j],
           \/ status'[wjob[w]] \notin {"absent", "held"}
           \/ status'[wjob[w]] = status[wjob[w]] /\ result'[wjob[w]] = result[wjob[w]],
           UNCHANGED <<attempts, approval, sent>>
    PROVE  UnclaimedBeforeApproval' /\ HoldMatchesJob'
<1>1. /\ wjob[w] \in Jobs
      /\ approval[wjob[w]] \in {"none", "approved"}
  BY DEF Inv, TypeOK, Approvals, ClaimsCounted, UnclaimedBeforeApproval
<1>2. UnclaimedBeforeApproval'
  BY <1>1 DEF Inv, UnclaimedBeforeApproval
<1>3. HoldMatchesJob'
  BY <1>1 DEF Inv, HoldMatchesJob
<1> QED
  BY <1>2, <1>3

-----------------------------------------------------------------------------
(* One lemma per group of actions. *)

LEMMA InitInv == Init => Inv
  BY NumJobsAssumption, FaultAssumption, RetriesAssumption
  DEF Init, Inv, TypeOK, ClaimsCounted, ClaimsDistinct, UnclaimedBeforeApproval,
      ReclaimsUnapproved, FirstAttemptUnsent, HoldMatchesJob, ApprovedRunsOnce,
      Statuses, Approvals, Results, Points, BeforeDispatch, Jobs

LEMMA FileInv == Inv /\ File => Inv'
<1> SUFFICES ASSUME Inv, NEW j \in Jobs,
                    FileHold(j) \/ \E k \in {"execution", "import"} : Enqueue(j, k)
             PROVE  Inv'
  BY DEF File
<1>1. CASE FileHold(j)
  <2>1. TypeOK'
    BY <1>1 DEF Inv, TypeOK, FileHold, Statuses, Approvals, workerVars, claimVars, ghostVars
  <2>2. UnclaimedBeforeApproval' /\ HoldMatchesJob'
    BY <1>1 DEF Inv, TypeOK, UnclaimedBeforeApproval, HoldMatchesJob, FileHold, Fresh,
                ghostVars
  <2> QED
    BY <1>1, <2>1, <2>2, RowFrame
    DEF Inv, TypeOK, FileHold, workerVars, claimVars, ghostVars
<1>2. CASE \E k \in {"execution", "import"} : Enqueue(j, k)
  <2>1. TypeOK'
    BY <1>2 DEF Inv, TypeOK, Enqueue, Statuses, holdVars, workerVars, claimVars, ghostVars
  <2>2. UnclaimedBeforeApproval' /\ HoldMatchesJob'
    BY <1>2 DEF Inv, TypeOK, UnclaimedBeforeApproval, HoldMatchesJob, Enqueue, Fresh,
                holdVars, ghostVars
  <2> QED
    BY <1>2, <2>1, <2>2, RowFrame
    DEF Enqueue, holdVars, workerVars, claimVars, ghostVars
<1> QED
  BY <1>1, <1>2

LEMMA ReviewInv == Inv /\ Review => Inv'
<1> SUFFICES ASSUME Inv, NEW j \in Jobs,
                    Approve(j) \/ Deny(j) \/ Withdraw(j) \/ Cancel(j)
             PROVE  Inv'
  BY DEF Review
<1> USE DEF Inv, TypeOK, Settleable, holdVars, workerVars, claimVars, ghostVars
<1>1. CASE Approve(j)
  <2>1. TypeOK'
    BY <1>1 DEF Approve, Statuses, Approvals
  <2>2. UnclaimedBeforeApproval' /\ HoldMatchesJob'
    BY <1>1 DEF UnclaimedBeforeApproval, HoldMatchesJob, Approve
  <2>3. \A i \in Jobs : approval'[i] = "approved" =>
            approval[i] = "approved" \/ attempts[i] = 0
    BY <1>1 DEF UnclaimedBeforeApproval, Approve
  <2> QED
    BY <1>1, <2>1, <2>2, <2>3, RowFrame DEF Approve
<1>2. CASE Deny(j)
  <2>1. TypeOK'
    BY <1>2 DEF Deny, Statuses, Approvals, Results
  <2>2. UnclaimedBeforeApproval' /\ HoldMatchesJob'
    BY <1>2 DEF UnclaimedBeforeApproval, HoldMatchesJob, Deny
  <2> QED
    BY <1>2, <2>1, <2>2, RowFrame DEF Deny
<1>3. CASE Withdraw(j)
  <2>1. TypeOK'
    BY <1>3 DEF Withdraw, Statuses, Approvals
  <2>2. UnclaimedBeforeApproval' /\ HoldMatchesJob'
    BY <1>3 DEF UnclaimedBeforeApproval, HoldMatchesJob, Withdraw
  <2> QED
    BY <1>3, <2>1, <2>2, RowFrame DEF Withdraw
<1>4. CASE Cancel(j)
  <2>1. TypeOK'
    BY <1>4 DEF Cancel, Statuses
  <2>2. UnclaimedBeforeApproval' /\ HoldMatchesJob'
    BY <1>4 DEF UnclaimedBeforeApproval, HoldMatchesJob, Cancel
  <2> QED
    BY <1>4, <2>1, <2>2, RowFrame DEF Cancel
<1> QED
  BY <1>1, <1>2, <1>3, <1>4

LEMMA SweepInv == Inv /\ Sweep => Inv'
<1> SUFFICES ASSUME Inv, Sweep PROVE Inv'
  OBVIOUS
<1> USE DEF Inv, TypeOK, holdVars, workerVars, claimVars, ghostVars
<1>1. CASE SweepApprovals
  <2>1. TypeOK'
    BY <1>1 DEF SweepApprovals, Statuses, Approvals, Results
  <2>2. UnclaimedBeforeApproval' /\ HoldMatchesJob'
    BY <1>1 DEF UnclaimedBeforeApproval, HoldMatchesJob, SweepApprovals
  <2> QED
    BY <1>1, <2>1, <2>2, RowFrame DEF SweepApprovals
<1>2. ASSUME NEW j \in Jobs, RetentionSweep(j) PROVE Inv'
  <2>1. TypeOK'
    BY <1>2 DEF RetentionSweep, Results
  <2>2. UnclaimedBeforeApproval' /\ HoldMatchesJob'
    BY <1>2 DEF UnclaimedBeforeApproval, HoldMatchesJob, RetentionSweep
  <2> QED
    BY <1>2, <2>1, <2>2, RowFrame DEF RetentionSweep
<1> QED
  BY <1>1, <1>2 DEF Sweep

LEMMA AgentSweepInv == Inv /\ AgentSweep => Inv'
<1> SUFFICES ASSUME Inv, NEW a \in Agents,
                    Disable(a) \/ Enable(a) \/ Archive(a) \/ Purge(a)
             PROVE  Inv'
  BY DEF AgentSweep
<1> USE DEF Inv, TypeOK, CancelRows, holdVars, workerVars, claimVars, ghostVars
<1>1. CASE Disable(a)
  <2>1. TypeOK'
    BY <1>1 DEF Disable, Statuses
  <2>2. UnclaimedBeforeApproval' /\ HoldMatchesJob'
    BY <1>1 DEF UnclaimedBeforeApproval, HoldMatchesJob, Disable, QueuedExecutionsOf
  <2> QED
    BY <1>1, <2>1, <2>2, RowFrame DEF Disable
<1>2. CASE Enable(a)
  <2>1. TypeOK'
    BY <1>2 DEF Enable, rowVars
  <2>2. UnclaimedBeforeApproval' /\ HoldMatchesJob'
    BY <1>2 DEF UnclaimedBeforeApproval, HoldMatchesJob, Enable, rowVars
  <2> QED
    BY <1>2, <2>1, <2>2, RowFrame DEF Enable, rowVars
<1>3. CASE Archive(a)
  <2>1. TypeOK'
    BY <1>3 DEF Archive, Statuses, Approvals
  <2>2. UnclaimedBeforeApproval' /\ HoldMatchesJob'
    BY <1>3 DEF UnclaimedBeforeApproval, HoldMatchesJob, Archive, PendingOf,
                QueuedExecutionsOf
  <2> QED
    BY <1>3, <2>1, <2>2, RowFrame DEF Archive
<1>4. CASE Purge(a)
  <2>1. TypeOK'
    BY <1>4 DEF Purge, Statuses
  <2>2. UnclaimedBeforeApproval' /\ HoldMatchesJob'
    BY <1>4 DEF UnclaimedBeforeApproval, HoldMatchesJob, Purge
  <2> QED
    BY <1>4, <2>1, <2>2, RowFrame DEF Purge
<1> QED
  BY <1>1, <1>2, <1>3, <1>4

LEMMA TimeInv == Inv /\ Time => Inv'
<1> SUFFICES ASSUME Inv, NEW j \in Jobs,
                    LeaseLapse(j) \/ BackoffLapse(j) \/ ApprovalLapse(j)
             PROVE  Inv'
  BY DEF Time
<1> USE DEF Inv, LeaseLapse, BackoffLapse, ApprovalLapse, rowVars, holdVars, workerVars,
            claimVars, ghostVars
<1>1. TypeOK'
  <2>1. CASE LeaseLapse(j)
    <3>1. faults' \in 0 .. MaxFaults
      BY <2>1, FaultAssumption DEF TypeOK
    <3> QED
      BY <2>1, <3>1 DEF TypeOK
  <2>2. CASE BackoffLapse(j)
    BY <2>2 DEF TypeOK
  <2>3. CASE ApprovalLapse(j)
    BY <2>3 DEF TypeOK
  <2> QED
    BY <2>1, <2>2, <2>3
<1>2. UNCHANGED <<status, attempts, result, approval, sent>>
  OBVIOUS
<1>3. UnclaimedBeforeApproval' /\ HoldMatchesJob'
  BY <1>2 DEF UnclaimedBeforeApproval, HoldMatchesJob
<1> QED
  BY <1>1, <1>2, <1>3, RowFrame

\* The claim is the one step that hands out an attempt: its number is new.
LEMMA ClaimInv ==
    ASSUME Inv, NEW w \in Workers, NEW j \in Jobs, Claim(w, j)
    PROVE  Inv'
<1> USE DEF Inv, TypeOK, Claim, Claimable, holdVars
<1>1. TypeOK'
  BY RetriesAssumption DEF Statuses, Points
<1>2. ClaimsCounted' /\ ClaimsDistinct'
  BY DEF ClaimsCounted, ClaimsDistinct
<1>3. UnclaimedBeforeApproval' /\ HoldMatchesJob'
  BY DEF UnclaimedBeforeApproval, HoldMatchesJob
<1>4. ReclaimsUnapproved'
  BY DEF ReclaimsUnapproved, BeforeDispatch
<1>5. FirstAttemptUnsent'
  BY DEF FirstAttemptUnsent, UnclaimedBeforeApproval, BeforeDispatch
<1> QED
  BY <1>1, <1>2, <1>3, <1>4, <1>5 DEF ApprovedRunsOnce

\* A step that changes only a worker's position.
LEMMA StepInv ==
    ASSUME Inv, NEW w \in Workers, NEW p \in Points, Step(w, p), pc[w] # "idle", p # "claimed",
           p \in BeforeDispatch =>
               \/ pc[w] \in BeforeDispatch
               \/ pc[w] = "claimed" /\ (wattempt[w] = 1 \/ approval[wjob[w]] # "approved")
    PROVE  Inv'
<1> USE DEF Step, Goto, rowVars, holdVars, claimVars, ghostVars
<1>1. TypeOK'
  BY DEF Inv, TypeOK
<1>2. UnclaimedBeforeApproval' /\ HoldMatchesJob'
  BY DEF Inv, UnclaimedBeforeApproval, HoldMatchesJob
<1> QED
  BY <1>1, <1>2, MoveFrame

LEMMA GateInv == ASSUME Inv, NEW w \in Workers, Gate(w) PROVE Inv'
<1>0. pc[w] = "claimed" /\ wjob[w] \in Jobs /\ wattempt[w] \in Nat \ {0}
  BY DEF Inv, TypeOK, ClaimsCounted, Gate, PassGate, RefuseLostClaim, RefuseApproved,
         RefuseDispatched
<1>1. CASE PassGate(w)
  <2>1. wattempt[w] = 1 \/ approval[wjob[w]] # "approved" \/ kind[wjob[w]] # "execution"
    BY <1>0, <1>1 DEF PassGate, IsReclaim
  <2>2. CASE kind[wjob[w]] = "execution"
    BY <1>0, <1>1, <2>1, <2>2, StepInv DEF PassGate, Points, BeforeDispatch
  <2>3. CASE kind[wjob[w]] # "execution"
    BY <1>0, <1>1, <2>3, StepInv DEF PassGate, Points, BeforeDispatch
  <2> QED
    BY <2>2, <2>3
<1> USE DEF SettleRow, Forget, rowVars, holdVars, ghostVars
<1>2. CASE RefuseLostClaim(w)
  <2>1. TypeOK'
    BY <1>0, <1>2, RetriesAssumption DEF Inv, TypeOK, RefuseLostClaim, Release, Points
  <2>2. UnclaimedBeforeApproval' /\ HoldMatchesJob'
    BY <1>0, <1>2, WorkerRows DEF RefuseLostClaim
  <2> QED
    BY <1>2, <2>1, <2>2, ReleaseFrame DEF RefuseLostClaim
<1>3. CASE RefuseApproved(w)
  <2>1. TypeOK'
    BY <1>0, <1>3, RetriesAssumption
    DEF Inv, TypeOK, RefuseApproved, Release, Points, Statuses, Results
  <2>2. UnclaimedBeforeApproval' /\ HoldMatchesJob'
    BY <1>0, <1>3, WorkerRows DEF Inv, TypeOK, RefuseApproved
  <2> QED
    BY <1>3, <2>1, <2>2, ReleaseFrame DEF RefuseApproved
<1>4. CASE RefuseDispatched(w)
  <2>1. TypeOK'
    BY <1>0, <1>4, RetriesAssumption DEF Inv, TypeOK, RefuseDispatched, Release, Points, Statuses
  <2>2. UnclaimedBeforeApproval' /\ HoldMatchesJob'
    BY <1>0, <1>4, WorkerRows DEF Inv, TypeOK, RefuseDispatched
  <2> QED
    BY <1>4, <2>1, <2>2, ReleaseFrame DEF RefuseDispatched
<1> QED
  BY <1>1, <1>2, <1>3, <1>4 DEF Gate

\* A handler that returns, from any point of a claim.
LEMMA ReturnInv ==
    ASSUME Inv, NEW w \in Workers, pc[w] # "idle",
           NEW body \in {"completed", "failed"}, NEW ev \in BOOLEAN, Return(w, body, ev)
    PROVE  Inv'
<1> USE DEF Return, Goto, holdVars
<1>0. wjob[w] \in Jobs
  BY DEF Inv, ClaimsCounted
<1>1. TypeOK'
  BY <1>0 DEF Inv, TypeOK, Points
<1>2. UnclaimedBeforeApproval' /\ HoldMatchesJob'
  BY DEF Inv, UnclaimedBeforeApproval, HoldMatchesJob
<1> QED
  BY <1>1, <1>2, MoveFrame DEF Points, BeforeDispatch

\* The one step that reaches the wire: for an approved job it is the first
\* attempt's, and nobody else holds that attempt.
LEMMA DispatchInv == ASSUME Inv, NEW w \in Workers, Dispatch(w) PROVE Inv'
<1> USE DEF Dispatch, Goto, rowVars, holdVars, claimVars
<1>0. wjob[w] \in Jobs /\ wattempt[w] \in Nat \ {0} /\ attempts[wjob[w]] \in Nat \ {0}
  BY DEF Inv, TypeOK, ClaimsCounted
<1>1. TypeOK'
  BY <1>0 DEF Inv, TypeOK, Points
<1>2. ClaimsCounted' /\ ClaimsDistinct'
  BY DEF Inv, TypeOK, ClaimsCounted, ClaimsDistinct
<1>3. UnclaimedBeforeApproval' /\ HoldMatchesJob'
  BY <1>0 DEF Inv, TypeOK, UnclaimedBeforeApproval, HoldMatchesJob
<1>4. approval[wjob[w]] = "approved" => wattempt[w] = 1 /\ sent[wjob[w]] = 0
  <2>1. wattempt[w] = 1 \/ wattempt[w] > 1
    BY <1>0
  <2> QED
    BY <2>1 DEF Inv, ReclaimsUnapproved, FirstAttemptUnsent, BeforeDispatch
<1>5. ReclaimsUnapproved'
  BY DEF Inv, TypeOK, ReclaimsUnapproved, BeforeDispatch
<1>6. FirstAttemptUnsent'
  <2> SUFFICES ASSUME NEW v \in Workers, v # w,
                      pc[v] \in BeforeDispatch \cup {"claimed"},
                      wattempt[v] = 1, approval[wjob[v]] = "approved"
               PROVE  sent'[wjob[v]] = 0
    BY DEF Inv, TypeOK, FirstAttemptUnsent, BeforeDispatch
  <2>1. wjob[v] # wjob[w]
    BY <1>4 DEF Inv, ClaimsDistinct, BeforeDispatch
  <2> QED
    BY <2>1, <1>0 DEF Inv, TypeOK, FirstAttemptUnsent, ClaimsCounted, BeforeDispatch
<1>7. ApprovedRunsOnce'
  BY <1>0, <1>4 DEF Inv, TypeOK, ApprovedRunsOnce
<1> QED
  BY <1>1, <1>2, <1>3, <1>5, <1>6, <1>7 DEF Inv

LEMMA ExecuteInv == ASSUME Inv, NEW w \in Workers, Execute(w) PROVE Inv'
<1>1. CASE \E v \in {"allow", "require_approval"} : AuthorizeAllow(w, v)
  BY <1>1, StepInv DEF AuthorizeAllow, Points, BeforeDispatch
<1>2. CASE \E ev \in BOOLEAN : AuthorizeDeny(w, ev) \/ RecheckDeny(w, ev)
  BY <1>2, ReturnInv DEF AuthorizeDeny, RecheckDeny
<1>3. CASE RecheckPass(w)
  BY <1>3, StepInv DEF RecheckPass, Points, BeforeDispatch
<1>4. CASE AuthorizeRaise(w) \/ InjectRaise(w) \/ DispatchRaise(w)
  BY <1>4, StepInv DEF AuthorizeRaise, InjectRaise, DispatchRaise, Raise, Points, BeforeDispatch
<1>5. CASE Inject(w)
  <2> USE <1>5 DEF Inject, CommitAccessEvent, Goto, holdVars, claimVars
  <2>1. TypeOK'
    <3>1. traces' \in [Jobs -> BOOLEAN] /\ ran' \in [Jobs -> BOOLEAN]
      BY DEF Inv, TypeOK, ClaimsCounted
    <3> QED
      BY <3>1 DEF Inv, TypeOK, Points
  <2>2. UnclaimedBeforeApproval' /\ HoldMatchesJob'
    BY DEF Inv, UnclaimedBeforeApproval, HoldMatchesJob
  <2> QED
    BY <2>1, <2>2, MoveFrame DEF Points, BeforeDispatch
<1>6. CASE Dispatch(w)
  BY <1>6, DispatchInv
<1>7. CASE DispatchRefused(w)
  BY <1>7, ReturnInv DEF DispatchRefused
<1>8. CASE \E body \in {"completed", "failed"}, ev \in BOOLEAN : Finish(w, body, ev)
  BY <1>8, ReturnInv DEF Finish
<1>9. CASE ImportReturns(w)
  <2> USE <1>9 DEF ImportReturns, Goto, rowVars, holdVars, ghostVars
  <2>1. TypeOK'
    BY DEF Inv, TypeOK, Points
  <2>2. UnclaimedBeforeApproval' /\ HoldMatchesJob'
    BY DEF Inv, UnclaimedBeforeApproval, HoldMatchesJob
  <2> QED
    BY <2>1, <2>2, MoveFrame DEF Points, BeforeDispatch
<1>10. CASE ImportRaises(w)
  BY <1>10, StepInv DEF ImportRaises, Raise, Points, BeforeDispatch
<1> QED
  BY <1>1, <1>2, <1>3, <1>4, <1>5, <1>6, <1>7, <1>8, <1>9, <1>10 DEF Execute

\* What a completion writes, if anything, is a terminal status and a result.
LEMMA CompletionWriteRows ==
    ASSUME Inv, NEW w \in Workers, pc[w] = "complete", CompletionWrite(w),
           UNCHANGED <<attempts, approval, sent>>
    PROVE  /\ status' \in [Jobs -> Statuses] /\ visible' \in [Jobs -> {"null", "future", "past"}]
           /\ result' \in [Jobs -> Results]
           /\ UnclaimedBeforeApproval' /\ HoldMatchesJob'
<1>0. wjob[w] \in Jobs
  BY DEF Inv, ClaimsCounted
<1>1. CASE status[wjob[w]] # "running"
  BY <1>0, <1>1, WorkerRows DEF CompletionWrite, Inv, TypeOK
<1>2. CASE status[wjob[w]] = "running"
  <2>1. PICK s \in {"failed", "completed"} : SettleRow(w, s) /\ result' = [result EXCEPT ![wjob[w]] = "handler"]
    BY <1>2 DEF CompletionWrite
  <2> QED
    BY <1>0, <2>1, WorkerRows DEF SettleRow, Inv, TypeOK, Statuses, Results
<1> QED
  BY <1>1, <1>2

LEMMA RecordInv == ASSUME Inv, NEW w \in Workers, Record(w) PROVE Inv'
<1>0. wjob[w] \in Jobs /\ pc[w] # "idle"
  BY DEF Inv, ClaimsCounted, Record, Complete, HandleFailure, FailClaimed
<1> USE DEF holdVars, ghostVars
<1>1. CASE Complete(w)
  <2> USE <1>1 DEF Complete
  <2>1. TypeOK'
    BY <1>0, CompletionWriteRows, RetriesAssumption DEF Inv, TypeOK, Release, Forget, Points
  <2> QED
    BY <2>1, CompletionWriteRows, ReleaseFrame
<1>2. CASE HandleFailure(w) \/ FailClaimed(w)
  <2> USE <1>2 DEF HandleFailure, FailClaimed, SettleRow
  <2>1. /\ \/ UNCHANGED <<status, visible>>
           \/ \E s \in {"failed", "dead_letter", "queued"}, v \in {"null", "future"} :
                  /\ status' = [status EXCEPT ![wjob[w]] = s]
                  /\ visible' = [visible EXCEPT ![wjob[w]] = v]
        /\ Release(w)
        /\ UNCHANGED <<kind, attempts, marker, traces, result, approval, lapsed, agent, memory,
                       faults, sent, ran, grace>>
    OBVIOUS
  <2>2. TypeOK'
    BY <1>0, <2>1, RetriesAssumption DEF Inv, TypeOK, Release, Points, Statuses
  <2>3. UnclaimedBeforeApproval' /\ HoldMatchesJob'
    BY <1>0, <2>1, WorkerRows DEF Inv, TypeOK
  <2> QED
    BY <2>1, <2>2, <2>3, ReleaseFrame
<1> QED
  BY <1>1, <1>2 DEF Record

LEMMA FaultInv == ASSUME Inv, NEW w \in Workers, Fault(w) PROVE Inv'
<1>0. /\ wjob[w] \in Jobs /\ pc[w] # "idle"
      /\ faults' \in 0 .. MaxFaults
  BY FaultAssumption
  DEF Inv, TypeOK, ClaimsCounted, Fault, Crash, OutcomeUnrecorded, InjectInDoubt,
      CompleteFails, CompleteInDoubt
<1>m. ASSUME Mark(w) \/ UNCHANGED marker PROVE marker' \in [Jobs -> BOOLEAN]
  BY <1>0, <1>m DEF Inv, TypeOK, Mark
<1> USE DEF rowVars, holdVars, ghostVars
<1>1. CASE Crash(w) \/ OutcomeUnrecorded(w)
  <2>1. /\ Release(w)
        /\ UNCHANGED <<kind, status, visible, attempts, marker, traces, result,
                       approval, lapsed, agent, sent, ran, grace>>
        /\ memory' \in [Workers -> SUBSET Jobs]
    BY <1>1 DEF Inv, TypeOK, Crash, OutcomeUnrecorded
  <2>2. TypeOK'
    BY <1>0, <2>1, RetriesAssumption DEF Inv, TypeOK, Release, Points
  <2>3. UnclaimedBeforeApproval' /\ HoldMatchesJob'
    BY <1>0, <2>1, WorkerRows
  <2> QED
    BY <2>1, <2>2, <2>3, ReleaseFrame
<1>2. CASE InjectInDoubt(w)
  <2> USE <1>2 DEF InjectInDoubt, CommitAccessEvent
  <2>1. TypeOK'
    <3>1. traces' \in [Jobs -> BOOLEAN] /\ ran' \in [Jobs -> BOOLEAN]
      BY <1>0, ZenonT(40) DEF Inv, TypeOK
    <3> QED
      BY <1>0, <3>1, RetriesAssumption DEF Inv, TypeOK, Release, Points
  <2>2. UnclaimedBeforeApproval' /\ HoldMatchesJob'
    BY <1>0, WorkerRows
  <2> QED
    BY <2>1, <2>2, ReleaseFrame
<1>3. CASE CompleteFails(w)
  <2> USE <1>3 DEF CompleteFails
  <2>1. retries' \in [Workers -> 0 .. CompletionRetries]
    <3>1. CASE Release(w)
      BY <3>1, RetriesAssumption DEF Inv, TypeOK, Release
    <3>2. CASE retries[w] < CompletionRetries /\ retries' = [retries EXCEPT ![w] = @ + 1]
      BY <3>2, RetriesAssumption DEF Inv, TypeOK
    <3> QED
      BY <3>1, <3>2, RetriesAssumption DEF Inv, TypeOK
  <2>2. TypeOK'
    BY <1>0, <1>m, <2>1, SMTT(30) DEF Inv, TypeOK, Release, Points
  <2>3. UnclaimedBeforeApproval' /\ HoldMatchesJob'
    BY <1>0, WorkerRows
  <2>4. CASE Release(w)
    BY <2>2, <2>3, <2>4, ReleaseFrame
  <2>5. CASE UNCHANGED <<pc, wjob, wattempt, outcome>>
    BY <2>2, <2>3, <2>5, RowFrame
  <2> QED
    BY <2>4, <2>5
<1>4. CASE CompleteInDoubt(w)
  <2> USE <1>4 DEF CompleteInDoubt
  <2>1. /\ status' \in [Jobs -> Statuses] /\ visible' \in [Jobs -> {"null", "future", "past"}]
        /\ result' \in [Jobs -> Results]
        /\ UnclaimedBeforeApproval' /\ HoldMatchesJob'
    <3>1. CASE CompletionWrite(w)
      BY <3>1, CompletionWriteRows
    <3>2. CASE UNCHANGED <<status, visible, result>>
      BY <3>2, <1>0, WorkerRows DEF Inv, TypeOK
    <3> QED
      BY <3>1, <3>2
  <2>2. TypeOK'
    BY <1>0, <1>m, <2>1, RetriesAssumption DEF Inv, TypeOK, Release, Points
  <2> QED
    BY <2>1, <2>2, ReleaseFrame
<1> QED
  BY <1>1, <1>2, <1>3, <1>4 DEF Fault

LEMMA NextInv == Inv /\ [Next]_vars => Inv'
<1> SUFFICES ASSUME Inv, [Next]_vars PROVE Inv'
  OBVIOUS
<1>1. CASE UNCHANGED vars
  BY <1>1 DEF vars, rowVars, holdVars, workerVars, claimVars, ghostVars, Inv, TypeOK,
      ClaimsCounted, ClaimsDistinct, UnclaimedBeforeApproval, ReclaimsUnapproved,
      FirstAttemptUnsent, HoldMatchesJob, ApprovedRunsOnce
<1>2. ASSUME NEW w \in Workers, Work(w) PROVE Inv'
  BY <1>2, ClaimInv, GateInv, ExecuteInv, RecordInv DEF Work
<1> QED
  BY <1>1, <1>2, FileInv, ReviewInv, SweepInv, AgentSweepInv, TimeInv, FaultInv DEF Next

-----------------------------------------------------------------------------
(* The theorems. *)

\* The inductive invariant holds in every reachable state.
THEOREM Invariance == Spec => []Inv
<1> QED
  BY InitInv, NextInv, PTL DEF Spec

\* Types of the job rows, holds, agents and worker slots.
THEOREM TypeCorrect == Spec => []TypeOK
<1>1. Inv => TypeOK
  BY DEF Inv
<1> QED
  BY <1>1, Invariance, PTL

\* _refuse_approved_reclaim and _handle_failure: an approved call goes out at
\* most once, whatever crashes, lost commits and overstayed leases occur.
THEOREM ApprovedOnce == Spec => []ApprovedRunsOnce
<1>1. Inv => ApprovedRunsOnce
  BY DEF Inv
<1> QED
  BY <1>1, Invariance, PTL

\* An open, denied, expired or withdrawn hold never reaches the wire.
THEOREM HeldCallsWait == Spec => []OnlyApprovedHoldsRun
<1>1. Inv => OnlyApprovedHoldsRun
  BY DEF Inv, UnclaimedBeforeApproval, OnlyApprovedHoldsRun
<1> QED
  BY <1>1, Invariance, PTL

\* A hold and its job agree, whichever service settles them.
THEOREM HoldsAgree == Spec => []HoldMatchesJob
<1>1. Inv => HoldMatchesJob
  BY DEF Inv
<1> QED
  BY <1>1, Invariance, PTL

-----------------------------------------------------------------------------
(* The queue implements ApprovalGate. *)

\* A window can only be over on a job that has a hold.
LapsedOnlyHolds == \A j \in Jobs : approval[j] = "none" => lapsed[j] = FALSE

\* The holds of D, all pending, are refused with verdict r.
RefuseHolds(D, r) ==
    /\ D # {} /\ \A j \in D : approval[j] = "pending"
    /\ approval' = [j \in Jobs |-> IF j \in D THEN r ELSE approval[j]]
    /\ UNCHANGED <<lapsed, sent>>

\* The only steps that touch a hold or the wire.
LEMMA HoldMoves ==
    ASSUME Inv, [Next]_vars
    PROVE  \/ UNCHANGED <<approval, lapsed, sent>>
           \/ \E j \in Jobs : FileHold(j) \/ Approve(j) \/ ApprovalLapse(j)
           \/ \E D \in SUBSET Jobs, r \in {"denied", "expired", "withdrawn"} : RefuseHolds(D, r)
           \/ \E w \in Workers : Dispatch(w)
<1> DEFINE Goal == \/ UNCHANGED <<approval, lapsed, sent>>
                   \/ \E j \in Jobs : FileHold(j) \/ Approve(j) \/ ApprovalLapse(j)
                   \/ \E D \in SUBSET Jobs, r \in {"denied", "expired", "withdrawn"} :
                          RefuseHolds(D, r)
                   \/ \E w \in Workers : Dispatch(w)
<1> USE DEF holdVars, ghostVars
<1>1. CASE UNCHANGED vars
  BY <1>1 DEF vars
<1>2. CASE File
  BY <1>2 DEF File, Enqueue
<1>3. CASE Review
  <2>1. PICK j \in Jobs : Approve(j) \/ Deny(j) \/ Withdraw(j) \/ Cancel(j)
    BY <1>3 DEF Review
  <2>2. CASE Approve(j)
    BY <2>2
  <2>3. CASE Deny(j)
    <3>1. RefuseHolds({j}, "denied")
      BY <2>3 DEF Deny, Settleable, RefuseHolds, Inv, TypeOK
    <3> QED
      BY <3>1
  <2>4. CASE Withdraw(j)
    <3>1. RefuseHolds({j}, "withdrawn")
      BY <2>4 DEF Withdraw, Settleable, RefuseHolds, Inv, TypeOK
    <3> QED
      BY <3>1
  <2>5. CASE Cancel(j)
    BY <2>5 DEF Cancel
  <2> QED
    BY <2>1, <2>2, <2>3, <2>4, <2>5
<1>4. CASE Sweep
  <2>1. CASE SweepApprovals
    <3> DEFINE due == {j \in Jobs : approval[j] = "pending" /\ lapsed[j]}
    <3>1. RefuseHolds(due, "expired")
      BY <2>1 DEF SweepApprovals, RefuseHolds
    <3> QED
      BY <3>1
  <2>2. CASE \E j \in Jobs : RetentionSweep(j)
    BY <2>2 DEF RetentionSweep
  <2> QED
    BY <1>4, <2>1, <2>2 DEF Sweep
<1>5. CASE AgentSweep
  <2>1. PICK a \in Agents : Disable(a) \/ Enable(a) \/ Archive(a) \/ Purge(a)
    BY <1>5 DEF AgentSweep
  <2>2. CASE Archive(a)
    <3>1. CASE PendingOf(a) = {}
      BY <2>2, <3>1 DEF Archive, Inv, TypeOK
    <3>2. CASE PendingOf(a) # {}
      <4>1. RefuseHolds(PendingOf(a), "withdrawn")
        BY <2>2, <3>2 DEF Archive, RefuseHolds, PendingOf
      <4>2. PendingOf(a) \in SUBSET Jobs
        BY DEF PendingOf
      <4> QED
        BY <4>1, <4>2
    <3> QED
      BY <3>1, <3>2
  <2>3. CASE Disable(a) \/ Enable(a) \/ Purge(a)
    BY <2>3 DEF Disable, Enable, Purge
  <2> QED
    BY <2>1, <2>2, <2>3
<1>6. CASE Time
  BY <1>6 DEF Time, LeaseLapse, BackoffLapse
<1>7. ASSUME NEW w \in Workers, Work(w) PROVE Goal
  <2>1. CASE (\E j \in Jobs : Claim(w, j)) \/ Gate(w) \/ Record(w)
    BY <2>1 DEF Claim, Gate, PassGate, RefuseLostClaim, RefuseApproved, RefuseDispatched,
                Step, Record, Complete, HandleFailure, FailClaimed
  <2>2. CASE Execute(w)
    BY <2>2 DEF Execute, AuthorizeAllow, AuthorizeDeny, AuthorizeRaise, RecheckPass, RecheckDeny,
                Inject, InjectRaise, DispatchRefused, DispatchRaise, Finish, ImportReturns,
                ImportRaises, Raise, Step, Return
  <2> QED
    BY <1>7, <2>1, <2>2 DEF Work
<1>8. ASSUME NEW w \in Workers, Fault(w) PROVE Goal
  BY <1>8 DEF Fault, Crash, OutcomeUnrecorded, InjectInDoubt, CompleteFails, CompleteInDoubt
<1> QED
  BY <1>1, <1>2, <1>3, <1>4, <1>5, <1>6, <1>7, <1>8 DEF Next

LEMMA LapsedInit == Init => LapsedOnlyHolds
  BY DEF Init, LapsedOnlyHolds

LEMMA LapsedNext == Inv /\ LapsedOnlyHolds /\ [Next]_vars => LapsedOnlyHolds'
<1> SUFFICES ASSUME Inv, LapsedOnlyHolds, [Next]_vars PROVE LapsedOnlyHolds'
  OBVIOUS
<1>1. CASE UNCHANGED <<approval, lapsed, sent>>
  BY <1>1 DEF LapsedOnlyHolds
<1>2. CASE \E j \in Jobs : FileHold(j) \/ Approve(j) \/ ApprovalLapse(j)
  BY <1>2 DEF LapsedOnlyHolds, FileHold, Approve, ApprovalLapse, Inv, TypeOK
<1>3. CASE \E D \in SUBSET Jobs, r \in {"denied", "expired", "withdrawn"} : RefuseHolds(D, r)
  BY <1>3 DEF LapsedOnlyHolds, RefuseHolds
<1>4. CASE \E w \in Workers : Dispatch(w)
  BY <1>4 DEF LapsedOnlyHolds, Dispatch, holdVars
<1> QED
  BY <1>1, <1>2, <1>3, <1>4, HoldMoves

\* Every step of the queue is a step of the gate, or changes nothing it shows.
LEMMA GateStep ==
    ASSUME Inv, LapsedOnlyHolds, [Next]_vars
    PROVE  [Abstract!GateNext]_(Abstract!gateVars)
<1> USE DEF Abstract!gateVars
<1>1. CASE UNCHANGED <<approval, lapsed, sent>>
  BY <1>1 DEF GateOf
<1>2. ASSUME NEW j \in Jobs, FileHold(j) PROVE Abstract!Hold(j)
  <2>1. /\ approval[j] = "none" /\ sent[j] = 0 /\ lapsed[j] = FALSE
        /\ approval' = [approval EXCEPT ![j] = "pending"]
        /\ UNCHANGED <<lapsed, sent>>
    BY <1>2 DEF FileHold, Fresh, Inv, UnclaimedBeforeApproval, LapsedOnlyHolds, ghostVars
  <2>2. [i \in Jobs |-> GateOf(i)]' = [[i \in Jobs |-> GateOf(i)] EXCEPT ![j] = "waiting"]
    BY <2>1 DEF GateOf, Inv, TypeOK
  <2>3. UNCHANGED [i \in Jobs |-> IF approval[i] = "none" THEN 0 ELSE sent[i]]
    BY <2>1 DEF Inv, TypeOK
  <2> QED
    BY <2>1, <2>2, <2>3 DEF Abstract!Hold, GateOf
<1>3. ASSUME NEW j \in Jobs, Approve(j) PROVE Abstract!ReleaseCall(j)
  BY <1>3 DEF Abstract!ReleaseCall, Approve, Settleable, GateOf, Inv, TypeOK, ghostVars
<1>4. ASSUME NEW j \in Jobs, ApprovalLapse(j) PROVE Abstract!Lapse(j)
  BY <1>4 DEF Abstract!Lapse, ApprovalLapse, GateOf, Inv, TypeOK, ghostVars
<1>5. ASSUME NEW D \in SUBSET Jobs, NEW r \in {"denied", "expired", "withdrawn"},
             RefuseHolds(D, r)
      PROVE  Abstract!Refuse(D)
  BY <1>5 DEF Abstract!Refuse, RefuseHolds, GateOf, Inv, TypeOK
<1>6. ASSUME NEW w \in Workers, Dispatch(w)
      PROVE  Abstract!Call(wjob[w]) \/ UNCHANGED Abstract!gateVars
  <2>1. /\ wjob[w] \in Jobs
        /\ approval[wjob[w]] \in {"none", "approved"}
        /\ approval[wjob[w]] = "approved" => sent[wjob[w]] = 0
    <3>1. wjob[w] \in Jobs /\ wattempt[w] \in Nat /\ wattempt[w] >= 1 /\ attempts[wjob[w]] # 0
      BY <1>6 DEF Inv, TypeOK, ClaimsCounted, Dispatch
    <3>2. wattempt[w] = 1 \/ wattempt[w] > 1
      BY <3>1
    <3> QED
      BY <1>6, <3>1, <3>2 DEF Inv, TypeOK, Approvals, UnclaimedBeforeApproval, Dispatch,
                         ReclaimsUnapproved, FirstAttemptUnsent, BeforeDispatch
  <2>2. UNCHANGED <<approval, lapsed>> /\ sent' = [sent EXCEPT ![wjob[w]] = @ + 1]
    BY <1>6 DEF Dispatch, holdVars
  <2>3. CASE approval[wjob[w]] = "none"
    BY <2>1, <2>2, <2>3 DEF GateOf, Inv, TypeOK
  <2>4. CASE approval[wjob[w]] = "approved"
    <3> DEFINE Out == [i \in Jobs |-> IF approval[i] = "none" THEN 0 ELSE sent[i]]
    <3>1. UNCHANGED [i \in Jobs |-> GateOf(i)]
      BY <2>2 DEF GateOf
    <3>2. Out' = [Out EXCEPT ![wjob[w]] = 1]
      <4>1. sent' = [sent EXCEPT ![wjob[w]] = 1] /\ sent \in [Jobs -> Nat]
        BY <2>1, <2>2, <2>4 DEF Inv, TypeOK
      <4>2. \A i \in Jobs : Out'[i] = IF i = wjob[w] THEN 1 ELSE Out[i]
        BY <2>2, <2>4, <4>1
      <4> QED
        BY <4>2, Zenon
    <3>3. GateOf(wjob[w]) = "released" /\ Out[wjob[w]] = 0
      BY <2>1, <2>4 DEF GateOf
    <3> QED
      BY <2>1, <3>1, <3>2, <3>3 DEF Abstract!Call
  <2> QED
    BY <2>1, <2>3, <2>4
<1>7. wjob \in [Workers -> Jobs \cup {0}] /\ \A w \in Workers : Dispatch(w) => wjob[w] \in Jobs
  BY DEF Inv, TypeOK, ClaimsCounted, Dispatch
<1>8. CASE \E j \in Jobs : FileHold(j) \/ Approve(j) \/ ApprovalLapse(j)
  BY <1>2, <1>3, <1>4, <1>8 DEF Abstract!GateNext
<1>9. CASE \E D \in SUBSET Jobs, r \in {"denied", "expired", "withdrawn"} : RefuseHolds(D, r)
  BY <1>5, <1>9 DEF Abstract!GateNext
<1>10. CASE \E w \in Workers : Dispatch(w)
  <2>1. PICK w \in Workers : Dispatch(w)
    BY <1>10
  <2>2. wjob[w] \in Jobs /\ (Abstract!Call(wjob[w]) \/ UNCHANGED Abstract!gateVars)
    BY <1>6, <1>7, <2>1, Zenon
  <2>3. CASE Abstract!Call(wjob[w])
    BY <2>2, <2>3 DEF Abstract!GateNext, Abstract!Call
  <2>4. CASE UNCHANGED Abstract!gateVars
    BY <2>4
  <2> QED
    BY <2>2, <2>3, <2>4
<1> QED
  BY <1>1, <1>8, <1>9, <1>10, HoldMoves

\* The queue, its workers and its sweeps implement the approval gate: a held
\* call is released only by a reviewer inside its window, goes out at most once
\* after that, and never if it was refused.
THEOREM Refinement == Spec => ImplementsGate
<1>1. Init => Abstract!GateInit
  BY DEF Init, Abstract!GateInit, GateOf
<1> QED
  BY <1>1, GateStep, LapsedInit, LapsedNext, Invariance, PTL
  DEF Spec, ImplementsGate, Abstract!GateSpec

-----------------------------------------------------------------------------
(* What a step may never do to a job row. *)

\* Steps that leave status, result and attempts alone.
LEMMA RowsKept ==
    ASSUME UNCHANGED <<status, result, attempts>>, TypeOK PROVE SettledStep /\ RequeueStep
  BY DEF SettledStep, RequeueStep, TypeOK, Statuses

\* A worker's write on its own row, allowed only while the row is running.
LEMMA OwnRowWrite ==
    ASSUME TypeOK, NEW w \in Workers, NEW s \in Statuses, NEW r \in Results,
           wjob[w] \in Jobs, status[wjob[w]] = "running",
           status' = [status EXCEPT ![wjob[w]] = s],
           result' = [result EXCEPT ![wjob[w]] = r] \/ UNCHANGED result,
           UNCHANGED attempts,
           s = "queued" => /\ pc[w] = "fail" /\ wattempt[w] = attempts[wjob[w]]
                           /\ attempts[wjob[w]] < MaxAttempts
    PROVE  SettledStep /\ RequeueStep
  BY DEF SettledStep, RequeueStep, TypeOK, Terminal

LEMMA RowStep ==
    ASSUME Inv, [Next]_vars PROVE SettledStep /\ RequeueStep
<1> DEFINE Goal == SettledStep /\ RequeueStep
<1>0. TypeOK
  BY DEF Inv
<1>1. CASE UNCHANGED vars
  BY <1>0, <1>1, RowsKept DEF vars, rowVars
<1>2. CASE File
  BY <1>0, <1>2 DEF File, FileHold, Enqueue, Fresh, SettledStep, RequeueStep, TypeOK, Terminal
<1>3. CASE Review
  <2>1. PICK j \in Jobs : Approve(j) \/ Deny(j) \/ Withdraw(j) \/ Cancel(j)
    BY <1>3 DEF Review
  <2> QED
    BY <1>0, <2>1 DEF Approve, Deny, Withdraw, Cancel, Settleable, SettledStep, RequeueStep,
                      TypeOK, Terminal
<1>4. CASE Sweep
  <2>1. CASE SweepApprovals
    BY <1>0, <2>1 DEF SweepApprovals, SettledStep, RequeueStep, TypeOK, Terminal
  <2>2. CASE \E j \in Jobs : RetentionSweep(j)
    BY <1>0, <2>2 DEF RetentionSweep, SettledStep, RequeueStep, TypeOK
  <2> QED
    BY <1>4, <2>1, <2>2 DEF Sweep
<1>5. CASE AgentSweep
  <2>1. PICK a \in Agents : Disable(a) \/ Enable(a) \/ Archive(a) \/ Purge(a)
    BY <1>5 DEF AgentSweep
  <2>2. CASE Enable(a)
    BY <1>0, <2>2, RowsKept DEF Enable, rowVars
  <2>3. CASE Disable(a) \/ Archive(a) \/ Purge(a)
    <3>1. PICK S \in SUBSET Jobs : CancelRows(S) /\ \A j \in S : status[j] \notin Terminal
      BY <1>0, <2>3 DEF Disable, Archive, Purge, PendingOf, QueuedExecutionsOf, Terminal
    <3>2. UNCHANGED <<attempts, result>>
      BY <2>3 DEF Disable, Archive, Purge
    <3> QED
      BY <1>0, <3>1, <3>2 DEF CancelRows, SettledStep, RequeueStep, TypeOK, Terminal
  <2> QED
    BY <2>1, <2>2, <2>3
<1>6. CASE Time
  BY <1>0, <1>6, RowsKept DEF Time, LeaseLapse, BackoffLapse, ApprovalLapse, rowVars
<1>7. ASSUME NEW w \in Workers, NEW j \in Jobs, Claim(w, j) PROVE Goal
  BY <1>0, <1>7 DEF Claim, Claimable, SettledStep, RequeueStep, TypeOK, Terminal
<1>8. ASSUME NEW w \in Workers, Gate(w) PROVE Goal
  <2>1. CASE PassGate(w) \/ RefuseLostClaim(w)
    BY <1>0, <2>1, RowsKept DEF PassGate, RefuseLostClaim, Step, rowVars
  <2>2. CASE RefuseApproved(w) \/ RefuseDispatched(w)
    <3>1. wjob[w] \in Jobs
      BY <2>2 DEF Inv, ClaimsCounted, RefuseApproved, RefuseDispatched
    <3> QED
      BY <1>0, <2>2, <3>1, OwnRowWrite
      DEF RefuseApproved, RefuseDispatched, HoldsClaim, SettleRow, Statuses, Results
  <2> QED
    BY <1>8, <2>1, <2>2 DEF Gate
<1>9. ASSUME NEW w \in Workers, Execute(w) PROVE Goal
  <2>1. UNCHANGED <<status, result, attempts>>
    BY <1>9 DEF Execute, AuthorizeAllow, AuthorizeDeny, AuthorizeRaise, RecheckPass, RecheckDeny,
                Inject, InjectRaise, Dispatch, DispatchRefused, DispatchRaise, Finish,
                ImportReturns, ImportRaises, Raise, Step, Return, rowVars
  <2> QED
    BY <1>0, <2>1, RowsKept
<1>10. ASSUME NEW w \in Workers, pc[w] = "complete", CompletionWrite(w), UNCHANGED attempts
       PROVE  Goal
  <2>1. wjob[w] \in Jobs
    BY <1>10 DEF Inv, ClaimsCounted
  <2> QED
    BY <1>0, <1>10, <2>1, RowsKept, OwnRowWrite DEF CompletionWrite, SettleRow, Statuses, Results
<1>11. ASSUME NEW w \in Workers, Record(w) PROVE Goal
  <2>1. CASE Complete(w)
    BY <1>10, <2>1 DEF Complete
  <2>2. wjob[w] \in Jobs /\ wattempt[w] \in Nat
    BY <1>11 DEF Inv, TypeOK, ClaimsCounted, Record, Complete, HandleFailure, FailClaimed
  <2>3. CASE HandleFailure(w)
    <3>1. CASE UNCHANGED <<status, visible>>
      BY <1>0, <2>3, <3>1, RowsKept DEF HandleFailure
    <3>2. ASSUME HoldsClaim(w), NEW s \in {"failed", "dead_letter"}, SettleRow(w, s) PROVE Goal
      BY <1>0, <2>2, <2>3, <3>2, OwnRowWrite DEF HandleFailure, HoldsClaim, SettleRow, Statuses, Results
    <3>3. ASSUME HoldsClaim(w), status' = [status EXCEPT ![wjob[w]] = "queued"],
                 wattempt[w] < MaxAttempts
          PROVE  Goal
      BY <1>0, <2>2, <2>3, <3>3, OwnRowWrite DEF HandleFailure, HoldsClaim, Statuses, Results
    <3> QED
      BY <2>2, <2>3, <3>1, <3>2, <3>3, BudgetAssumption DEF HandleFailure
  <2>4. CASE FailClaimed(w)
    BY <1>0, <2>2, <2>4, RowsKept, OwnRowWrite
    DEF FailClaimed, HoldsClaim, SettleRow, Statuses, Results
  <2> QED
    BY <1>11, <2>1, <2>3, <2>4 DEF Record
<1>12. ASSUME NEW w \in Workers, Fault(w) PROVE Goal
  <2>1. CASE Crash(w) \/ OutcomeUnrecorded(w) \/ InjectInDoubt(w) \/ CompleteFails(w)
    BY <1>0, <2>1, RowsKept DEF Crash, OutcomeUnrecorded, InjectInDoubt, CompleteFails, rowVars
  <2>2. CASE CompleteInDoubt(w)
    BY <1>0, <1>10, <2>2, RowsKept DEF CompleteInDoubt
  <2> QED
    BY <1>12, <2>1, <2>2 DEF Fault
<1> QED
  BY <1>1, <1>2, <1>3, <1>4, <1>5, <1>6, <1>7, <1>8, <1>9, <1>11, <1>12 DEF Next, Work

\* No late completion, requeue, refusal, sweep or cancel moves a settled job
\* or replaces its result.
THEOREM Settled == Spec => SettledStaysSettled
<1>1. Inv /\ [Next]_vars => [SettledStep]_vars
  BY RowStep
<1> QED
  BY <1>1, Invariance, PTL DEF Spec, SettledStaysSettled, SettledStep

\* A requeue is always the claim holder's, within the retry budget.
THEOREM Requeues == Spec => RequeueOnlyByClaimHolder
<1>1. Inv /\ [Next]_vars => [RequeueStep]_vars
  BY RowStep
<1> QED
  BY <1>1, Invariance, PTL DEF Spec, RequeueOnlyByClaimHolder, RequeueStep


-----------------------------------------------------------------------------
(* With leases sized above the run time: one run, one call. *)

\* A busy worker has the job's latest claim, and nobody else can take the job.
SoleRun ==
    \A w \in Workers : pc[w] # "idle" =>
        /\ wattempt[w] = attempts[wjob[w]]
        /\ status[wjob[w]] \notin {"absent", "queued", "held"}
        /\ status[wjob[w]] = "running" => visible[wjob[w]] = "future"

\* Nothing was sent for a job that is on its way to the wire.
Unsent ==
    \A w \in Workers :
        \/ pc[w] \in BeforeDispatch
        \/ pc[w] = "claimed" /\ wattempt[w] = 1
        => sent[wjob[w]] = 0

\* What was sent, or is about to be, left the trace the re-claim gate looks for.
SentIsTraced ==
    /\ \A j \in Jobs : sent[j] > 0 => traces[j]
    /\ \A w \in Workers : pc[w] = "dispatch" => traces[wjob[w]]

OnceInv == SoleRun /\ Unsent /\ SentIsTraced /\ ExecutionRunsOnce

\* Two busy workers never share a job.
LEMMA OneWorkerPerJob ==
    ASSUME Inv, SoleRun, NEW v \in Workers, NEW w \in Workers, v # w,
           pc[v] # "idle", pc[w] # "idle"
    PROVE  wjob[v] # wjob[w]
BY DEF Inv, ClaimsDistinct, SoleRun

\* A step of the rows: a row that some worker may hold is left alone or settled.
LEMMA OnceRows ==
    ASSUME Inv, OnceInv, UNCHANGED <<pc, wjob, wattempt, attempts, sent, traces>>,
           \A j \in Jobs :
               \/ status'[j] = status[j] /\ visible'[j] = visible[j]
               \/ status[j] \in {"absent", "queued", "held"}
               \/ status'[j] \in Terminal
    PROVE  OnceInv'
<1>1. \A w \in Workers : pc[w] # "idle" => wjob[w] \in Jobs
  BY DEF Inv, ClaimsCounted
<1>2. SoleRun'
  BY <1>1 DEF OnceInv, SoleRun, Terminal
<1> QED
  BY <1>2 DEF OnceInv, Unsent, SentIsTraced, ExecutionRunsOnce

\* A worker moves on with its claim and sends nothing.
LEMMA OnceMoves ==
    ASSUME Inv, OnceInv, NEW w \in Workers, pc[w] # "idle", NEW p \in Points, p # "claimed",
           pc' = [pc EXCEPT ![w] = p],
           UNCHANGED <<wjob, wattempt, attempts, sent, status, visible>>,
           \A j \in Jobs : traces[j] => traces'[j],
           p \in BeforeDispatch => pc[w] \in BeforeDispatch \/ sent[wjob[w]] = 0,
           p = "dispatch" => traces'[wjob[w]]
    PROVE  OnceInv'
<1>1. \A v \in Workers : pc[v] # "idle" => wjob[v] \in Jobs
  BY DEF Inv, ClaimsCounted
<1>2. pc \in [Workers -> Points]
  BY DEF Inv, TypeOK
<1>3. SoleRun'
  BY <1>2 DEF OnceInv, SoleRun
<1>4. Unsent'
  BY <1>2 DEF OnceInv, Unsent
<1>5. SentIsTraced'
  BY <1>1, <1>2 DEF OnceInv, SentIsTraced
<1> QED
  BY <1>3, <1>4, <1>5 DEF OnceInv, ExecutionRunsOnce

\* A worker lets its claim go, after writing its own row if at all.
LEMMA OnceReleases ==
    ASSUME Inv, OnceInv, NEW w \in Workers, pc[w] # "idle", Release(w),
           UNCHANGED <<attempts, sent>>,
           \A j \in Jobs : traces[j] => traces'[j],
           \A j \in Jobs : j # wjob[w] => status'[j] = status[j] /\ visible'[j] = visible[j]
    PROVE  OnceInv'
<1>1. \A v \in Workers : pc[v] # "idle" => wjob[v] \in Jobs
  BY DEF Inv, ClaimsCounted
<1>2. \A v \in Workers : v # w /\ pc[v] # "idle" => wjob[v] # wjob[w]
  BY OneWorkerPerJob DEF OnceInv
<1>3. /\ pc'[w] = "idle"
      /\ \A v \in Workers : v # w => /\ pc'[v] = pc[v] /\ wjob'[v] = wjob[v]
                                     /\ wattempt'[v] = wattempt[v]
  BY DEF Release, Inv, TypeOK
<1>4. SoleRun'
  BY <1>1, <1>2, <1>3 DEF OnceInv, SoleRun
<1>5. Unsent'
  BY <1>3 DEF OnceInv, Unsent, BeforeDispatch
<1>6. SentIsTraced'
  BY <1>1, <1>3 DEF OnceInv, SentIsTraced
<1> QED
  BY <1>4, <1>5, <1>6 DEF OnceInv, ExecutionRunsOnce

\* A claimable job has no busy worker, and a first claim finds nothing sent.
LEMMA OnceClaim ==
    ASSUME Inv, OnceInv, NEW w \in Workers, NEW j \in Jobs, Claim(w, j) PROVE OnceInv'
<1>1. \A v \in Workers : pc[v] # "idle" => wjob[v] # j /\ wjob[v] \in Jobs
  BY DEF Inv, ClaimsCounted, OnceInv, SoleRun, Claim, Claimable
<1>2. /\ pc[w] = "idle" /\ pc'[w] = "claimed" /\ wjob'[w] = j /\ wattempt'[w] = attempts[j] + 1
      /\ \A v \in Workers : v # w => /\ pc'[v] = pc[v] /\ wjob'[v] = wjob[v]
                                     /\ wattempt'[v] = wattempt[v]
      /\ attempts'[j] = attempts[j] + 1 /\ status'[j] = "running" /\ visible'[j] = "future"
      /\ \A i \in Jobs : i # j => /\ attempts'[i] = attempts[i] /\ status'[i] = status[i]
                                  /\ visible'[i] = visible[i]
      /\ UNCHANGED <<sent, traces>>
  BY DEF Claim, Inv, TypeOK
<1>3. SoleRun'
  BY <1>1, <1>2 DEF OnceInv, SoleRun
<1>4. attempts[j] + 1 = 1 => sent[j] = 0
  <2>1. attempts[j] \in Nat
    BY DEF Inv, TypeOK
  <2>2. attempts[j] = 0 => sent[j] = 0
    BY DEF Inv, UnclaimedBeforeApproval
  <2> QED
    BY <2>1, <2>2
<1>5. Unsent'
  <2>1. Unsent
    BY DEF OnceInv
  <2>2. ASSUME NEW v \in Workers,
               pc'[v] \in BeforeDispatch \/ (pc'[v] = "claimed" /\ wattempt'[v] = 1)
        PROVE  sent[wjob'[v]] = 0
    <3>1. CASE v = w
      BY <1>2, <1>4, <2>2, <3>1 DEF BeforeDispatch
    <3>2. CASE v # w
      BY <1>2, <2>1, <2>2, <3>2 DEF Unsent
    <3> QED
      BY <3>1, <3>2
  <2> QED
    BY <1>2, <2>2 DEF Unsent
<1>6. SentIsTraced'
  BY <1>2 DEF OnceInv, SentIsTraced
<1> QED
  BY <1>2, <1>3, <1>5, <1>6 DEF OnceInv, ExecutionRunsOnce

\* The call goes out: it is the job's first, and no other worker is near the wire with
\* the job.
LEMMA OnceDispatch == ASSUME Inv, OnceInv, NEW w \in Workers, Dispatch(w) PROVE OnceInv'
<1>1. /\ pc[w] = "dispatch" /\ wjob[w] \in Jobs
      /\ sent[wjob[w]] = 0 /\ traces[wjob[w]]
  BY DEF Dispatch, Inv, ClaimsCounted, OnceInv, Unsent, SentIsTraced, BeforeDispatch
<1>2. \A v \in Workers : v # w /\ pc[v] # "idle" => wjob[v] # wjob[w]
  BY <1>1, OneWorkerPerJob DEF OnceInv
<1>3. /\ pc'[w] = "dispatched" /\ \A v \in Workers : v # w => pc'[v] = pc[v]
      /\ sent'[wjob[w]] = 1 /\ \A i \in Jobs : i # wjob[w] => sent'[i] = sent[i]
      /\ UNCHANGED <<wjob, wattempt, attempts, status, visible, traces>>
  BY <1>1 DEF Dispatch, Goto, Inv, TypeOK, rowVars, claimVars
<1>4. \A v \in Workers : pc[v] # "idle" => wjob[v] \in Jobs
  BY DEF Inv, ClaimsCounted
<1>5. SoleRun'
  BY <1>1, <1>3 DEF OnceInv, SoleRun
<1>6. Unsent'
  BY <1>2, <1>3, <1>4 DEF OnceInv, Unsent, BeforeDispatch
<1>7. SentIsTraced'
  BY <1>1, <1>3 DEF OnceInv, SentIsTraced
<1>8. ExecutionRunsOnce'
  BY <1>1, <1>3 DEF OnceInv, ExecutionRunsOnce
<1> QED
  BY <1>5, <1>6, <1>7, <1>8 DEF OnceInv

\* The lease of a busy worker's job does not run out.
LEMMA OnceLapse ==
    ASSUME MayOverstay = FALSE, Inv, OnceInv, NEW j \in Jobs, LeaseLapse(j) PROVE OnceInv'
<1>1. \A w \in Workers : pc[w] # "idle" => wjob[w] # j
  BY DEF LeaseLapse, Worked, OnceInv, SoleRun
<1>2. /\ UNCHANGED <<pc, wjob, wattempt, attempts, sent, traces, status>>
      /\ \A i \in Jobs : i # j => visible'[i] = visible[i]
  BY DEF LeaseLapse, workerVars, claimVars, ghostVars, Inv, TypeOK
<1>3. SoleRun'
  BY <1>1, <1>2 DEF OnceInv, SoleRun, Inv, ClaimsCounted
<1> QED
  BY <1>2, <1>3 DEF OnceInv, Unsent, SentIsTraced, ExecutionRunsOnce

\* The credential event names the job itself, whichever others share its trace.
LEMMA AccessIsTraced ==
    ASSUME Inv, OnceInv, NEW w \in Workers, pc[w] # "idle", CommitAccessEvent(w)
    PROVE  traces'[wjob[w]] /\ \A j \in Jobs : traces[j] => traces'[j]
<1>1. wjob[w] \in Jobs /\ wjob[w] \in SharesTrace(wjob[w])
  BY DEF Inv, ClaimsCounted, OnceInv, SoleRun, SharesTrace
<1> QED
  BY <1>1 DEF CommitAccessEvent

LEMMA OnceGate == ASSUME Inv, OnceInv, NEW w \in Workers, Gate(w) PROVE OnceInv'
<1>0. pc[w] = "claimed" /\ wjob[w] \in Jobs /\ wattempt[w] \in Nat \ {0} /\ sent[wjob[w]] \in Nat
  BY DEF Inv, TypeOK, ClaimsCounted, Gate, PassGate, RefuseLostClaim, RefuseApproved,
         RefuseDispatched
<1>1. CASE PassGate(w)
  <2> DEFINE p == IF kind[wjob[w]] = "execution" THEN "authorize" ELSE "import"
  <2>1. Step(w, p) /\ p \in Points /\ p # "claimed" /\ p # "dispatch"
    BY <1>1 DEF PassGate, Points
  <2>2. p \in BeforeDispatch => sent[wjob[w]] = 0
    <3> SUFFICES ASSUME kind[wjob[w]] = "execution" PROVE sent[wjob[w]] = 0
      BY DEF BeforeDispatch
    <3>1. CASE wattempt[w] = 1
      BY <1>0, <3>1 DEF OnceInv, Unsent
    <3>2. CASE wattempt[w] # 1
      <4>1. IsReclaim(w)
        BY <1>0, <3>2 DEF IsReclaim
      <4>2. ~traces[wjob[w]]
        BY <1>1, <4>1 DEF PassGate, Evidence
      <4> QED
        BY <1>0, <4>2 DEF OnceInv, SentIsTraced
    <3> QED
      BY <3>1, <3>2
  <2> HIDE DEF p
  <2> QED
    BY <1>0, <2>1, <2>2, OnceMoves DEF Step, Goto, rowVars, claimVars, ghostVars
<1>2. CASE RefuseLostClaim(w)
  BY <1>0, <1>2, OnceReleases DEF RefuseLostClaim, rowVars, ghostVars
<1>3. CASE RefuseApproved(w) \/ RefuseDispatched(w)
  <2>1. /\ Release(w) /\ SettleRow(w, "failed") /\ UNCHANGED <<attempts, sent, traces>>
    BY <1>3 DEF RefuseApproved, RefuseDispatched, ghostVars
  <2>2. \A j \in Jobs : j # wjob[w] => status'[j] = status[j] /\ visible'[j] = visible[j]
    BY <2>1 DEF SettleRow, Inv, TypeOK
  <2> QED
    BY <1>0, <2>1, <2>2, OnceReleases
<1> QED
  BY <1>1, <1>2, <1>3 DEF Gate

\* Everything the handler does but the call itself.
LEMMA OnceExecute ==
    ASSUME Inv, OnceInv, NEW w \in Workers, Execute(w), ~Dispatch(w) PROVE OnceInv'
<1>1. ASSUME NEW p \in Points, pc[w] # "idle", Step(w, p), p \notin {"claimed", "dispatch"},
             p \in BeforeDispatch => pc[w] \in BeforeDispatch
      PROVE  OnceInv'
  BY <1>1, OnceMoves DEF Step, Goto, rowVars, claimVars, ghostVars
<1>2. ASSUME pc[w] # "idle", NEW body, NEW ev, Return(w, body, ev) PROVE OnceInv'
  <2>1. \A j \in Jobs : traces[j] => traces'[j]
    BY <1>2 DEF Return, Inv, TypeOK
  <2> QED
    BY <1>2, <2>1, OnceMoves DEF Return, Goto, Points, BeforeDispatch
<1>3. CASE \E v \in {"allow", "require_approval"} : AuthorizeAllow(w, v)
  BY <1>1, <1>3 DEF AuthorizeAllow, Points, BeforeDispatch
<1>4. CASE \E ev \in BOOLEAN : AuthorizeDeny(w, ev) \/ RecheckDeny(w, ev)
  BY <1>2, <1>4 DEF AuthorizeDeny, RecheckDeny
<1>5. CASE RecheckPass(w) \/ AuthorizeRaise(w) \/ InjectRaise(w) \/ DispatchRaise(w)
  BY <1>1, <1>5
  DEF RecheckPass, AuthorizeRaise, InjectRaise, DispatchRaise, Raise, Points, BeforeDispatch
<1>6. CASE Inject(w)
  <2>1. pc[w] = "inject" /\ CommitAccessEvent(w)
    BY <1>6 DEF Inject
  <2>2. traces'[wjob[w]] /\ \A j \in Jobs : traces[j] => traces'[j]
    BY <2>1, AccessIsTraced
  <2> QED
    BY <1>6, <2>1, <2>2, OnceMoves DEF Inject, Goto, claimVars, Points, BeforeDispatch
<1>7. CASE DispatchRefused(w)
  BY <1>2, <1>7 DEF DispatchRefused
<1>8. CASE \E body \in {"completed", "failed"}, ev \in BOOLEAN : Finish(w, body, ev)
  BY <1>2, <1>8 DEF Finish
<1>9. CASE ImportReturns(w)
  BY <1>9, OnceMoves DEF ImportReturns, Goto, rowVars, ghostVars, Points, BeforeDispatch
<1>10. CASE ImportRaises(w)
  BY <1>1, <1>10 DEF ImportRaises, Raise, Points, BeforeDispatch
<1> QED
  BY <1>3, <1>4, <1>5, <1>6, <1>7, <1>8, <1>9, <1>10 DEF Execute

\* What a worker records is on its own row.
LEMMA OnceRecord ==
    ASSUME Inv, OnceInv, NEW w \in Workers,
           Record(w) \/ Fault(w)
    PROVE  OnceInv'
<1>0. wjob[w] \in Jobs /\ pc[w] # "idle" /\ UNCHANGED <<attempts, sent>>
  BY DEF Inv, ClaimsCounted, Record, Fault, Complete, HandleFailure, FailClaimed, Crash,
         OutcomeUnrecorded, InjectInDoubt, CompleteFails, CompleteInDoubt, rowVars, ghostVars
<1>1. \A j \in Jobs : j # wjob[w] => status'[j] = status[j] /\ visible'[j] = visible[j]
  <2>1. status \in [Jobs -> Statuses] /\ visible \in [Jobs -> {"null", "future", "past"}]
    BY DEF Inv, TypeOK
  <2>2. ASSUME CompletionWrite(w)
        PROVE  \A j \in Jobs : j # wjob[w] => status'[j] = status[j] /\ visible'[j] = visible[j]
    BY <2>1, <2>2 DEF CompletionWrite, SettleRow
  <2>3. CASE Record(w)
    BY <2>1, <2>2, <2>3 DEF Record, Complete, HandleFailure, FailClaimed, SettleRow
  <2>4. CASE Fault(w)
    BY <2>1, <2>2, <2>4 DEF Fault, Crash, OutcomeUnrecorded, InjectInDoubt, CompleteFails,
                            CompleteInDoubt, rowVars
  <2> QED
    BY <2>3, <2>4
<1>2. \A j \in Jobs : traces[j] => traces'[j]
  <2>1. CASE InjectInDoubt(w)
    BY <1>0, <2>1, AccessIsTraced DEF InjectInDoubt
  <2> QED
    BY <2>1 DEF Record, Fault, Complete, HandleFailure, FailClaimed, Crash, OutcomeUnrecorded,
                CompleteFails, CompleteInDoubt, rowVars
<1>3. CASE Release(w)
  BY <1>0, <1>1, <1>2, <1>3, OnceReleases
<1>4. CASE CompleteFails(w) /\ ~Release(w)
  <2>1. UNCHANGED <<pc, wjob, wattempt, attempts, sent, traces, status, visible>>
    BY <1>4 DEF CompleteFails, ghostVars
  <2> QED
    BY <2>1, OnceRows
<1> QED
  BY <1>3, <1>4 DEF Record, Fault, Complete, HandleFailure, FailClaimed, Crash, OutcomeUnrecorded,
                    InjectInDoubt, CompleteFails, CompleteInDoubt

LEMMA OnceNext ==
    ASSUME MayOverstay = FALSE, Inv, OnceInv, [Next]_vars PROVE OnceInv'
<1> USE DEF workerVars, claimVars, ghostVars, rowVars
<1>0. status \in [Jobs -> Statuses] /\ visible \in [Jobs -> {"null", "future", "past"}]
  BY DEF Inv, TypeOK
<1>1. CASE UNCHANGED vars
  BY <1>1, OnceRows DEF vars
<1>2. CASE File
  <2>1. PICK j \in Jobs : FileHold(j) \/ \E k \in {"execution", "import"} : Enqueue(j, k)
    BY <1>2 DEF File
  <2> QED
    BY <1>0, <2>1, OnceRows DEF FileHold, Enqueue, Fresh
<1>3. CASE Review
  <2>1. PICK j \in Jobs : Approve(j) \/ Deny(j) \/ Withdraw(j) \/ Cancel(j)
    BY <1>3 DEF Review
  <2> QED
    BY <1>0, <2>1, OnceRows DEF Approve, Deny, Withdraw, Cancel, Settleable, Terminal
<1>4. CASE Sweep
  <2>1. CASE SweepApprovals
    BY <1>0, <2>1, OnceRows DEF SweepApprovals, Terminal
  <2>2. CASE \E j \in Jobs : RetentionSweep(j)
    BY <1>0, <2>2, OnceRows DEF RetentionSweep
  <2> QED
    BY <1>4, <2>1, <2>2 DEF Sweep
<1>5. CASE AgentSweep
  <2>1. PICK a \in Agents : Disable(a) \/ Enable(a) \/ Archive(a) \/ Purge(a)
    BY <1>5 DEF AgentSweep
  <2>2. UNCHANGED <<pc, wjob, wattempt, attempts, sent, traces>>
    BY <2>1 DEF Disable, Enable, Archive, Purge
  <2>3. \A j \in Jobs : \/ status'[j] = status[j] /\ visible'[j] = visible[j]
                        \/ status'[j] = "cancelled"
    BY <1>0, <2>1 DEF Disable, Enable, Archive, Purge, CancelRows
  <2> QED
    BY <2>2, <2>3, OnceRows DEF Terminal
<1>6. CASE Time
  <2>1. PICK j \in Jobs : LeaseLapse(j) \/ BackoffLapse(j) \/ ApprovalLapse(j)
    BY <1>6 DEF Time
  <2>2. CASE BackoffLapse(j) \/ ApprovalLapse(j)
    BY <1>0, <2>2, OnceRows DEF BackoffLapse, ApprovalLapse
  <2> QED
    BY <2>1, <2>2, OnceLapse
<1>7. ASSUME NEW w \in Workers, Work(w) \/ Fault(w) PROVE OnceInv'
  BY <1>7, OnceClaim, OnceGate, OnceExecute, OnceDispatch, OnceRecord DEF Work
<1> QED
  BY <1>1, <1>2, <1>3, <1>4, <1>5, <1>6, <1>7 DEF Next

\* With a visibility timeout above the run time of the handler, no crash, lost commit or
\* failed completion write makes any execution, approved or not, go out twice.
THEOREM RunsOnce ==
    ASSUME MayOverstay = FALSE
    PROVE  Spec => []ExecutionRunsOnce
<1>1. Init => OnceInv
  BY DEF Init, OnceInv, SoleRun, Unsent, SentIsTraced, ExecutionRunsOnce, BeforeDispatch
<1>2. Inv /\ OnceInv /\ [Next]_vars => OnceInv'
  BY OnceNext
<1>3. OnceInv => ExecutionRunsOnce
  BY DEF OnceInv
<1> QED
  BY <1>1, <1>2, <1>3, Invariance, PTL DEF Spec

-----------------------------------------------------------------------------
(* Archiving an agent. *)

\* A step that archives nobody and passes no re-check.
LEMMA StoppedFrame ==
    ASSUME Inv, ArchivedAgentStopped, UNCHANGED <<agent, grace>>,
           \A w \in Workers : pc'[w] \in {"inject", "dispatch"} =>
               \/ pc[w] \in {"inject", "dispatch"} /\ wjob'[w] = wjob[w]
               \/ agent[Owner[wjob'[w]]] = "active"
    PROVE  ArchivedAgentStopped'
BY DEF ArchivedAgentStopped

LEMMA StoppedNext ==
    ASSUME Inv, ArchivedAgentStopped, [Next]_vars PROVE ArchivedAgentStopped'
<1> USE DEF workerVars, claimVars, ghostVars
<1>0. /\ pc \in [Workers -> Points] /\ wjob \in [Workers -> Jobs \cup {0}]
      /\ agent \in [Agents -> {"active", "disabled", "archived", "deleted"}]
      /\ \A w \in Workers : pc[w] # "idle" => wjob[w] \in Jobs /\ Owner[wjob[w]] \in Agents
  BY OwnerAssumption DEF Inv, TypeOK, ClaimsCounted
<1>1. CASE UNCHANGED <<pc, wjob, agent, grace>>
  BY <1>1, StoppedFrame
<1>2. CASE AgentSweep
  <2>1. PICK a \in Agents : Disable(a) \/ Enable(a) \/ Archive(a) \/ Purge(a)
    BY <1>2 DEF AgentSweep
  <2>2. UNCHANGED <<pc, wjob>> /\ grace \subseteq grace'
    BY <2>1 DEF Disable, Enable, Archive, Purge
  <2>3. CASE Archive(a)
    <3>1. \A b \in Agents : b # a => agent'[b] = agent[b]
      BY <1>0, <2>3 DEF Archive
    <3>2. \A w \in Workers : pc[w] \in {"inject", "dispatch"} /\ Owner[wjob[w]] = a => w \in grace'
      BY <2>3 DEF Archive
    <3> QED
      BY <1>0, <2>2, <3>1, <3>2 DEF ArchivedAgentStopped
  <2>4. CASE Disable(a) \/ Enable(a) \/ Purge(a)
    <3>1. \A b \in Agents : agent'[b] \in {"archived", "deleted"} =>
                               agent[b] \in {"archived", "deleted"}
      BY <1>0, <2>4 DEF Disable, Enable, Purge
    <3> QED
      BY <1>0, <2>2, <3>1 DEF ArchivedAgentStopped
  <2> QED
    BY <2>1, <2>3, <2>4
<1>3. ASSUME NEW w \in Workers, NEW j \in Jobs, Claim(w, j) PROVE ArchivedAgentStopped'
  <2>1. /\ pc'[w] = "claimed" /\ \A v \in Workers : v # w => pc'[v] = pc[v] /\ wjob'[v] = wjob[v]
        /\ agent' = agent /\ grace' = grace \ {w}
    BY <1>0, <1>3 DEF Claim
  <2> QED
    BY <2>1 DEF ArchivedAgentStopped
<1>4. ASSUME NEW w \in Workers, UNCHANGED <<agent, grace>>, Release(w) PROVE ArchivedAgentStopped'
  <2>1. pc'[w] = "idle" /\ \A v \in Workers : v # w => pc'[v] = pc[v] /\ wjob'[v] = wjob[v]
    BY <1>0, <1>4 DEF Release
  <2> QED
    BY <1>4, <2>1, StoppedFrame
<1>5. ASSUME NEW w \in Workers, NEW p, pc' = [pc EXCEPT ![w] = p],
             UNCHANGED <<wjob, agent, grace>>,
             p \in {"inject", "dispatch"} =>
                pc[w] \in {"inject", "dispatch"} \/ agent[Owner[wjob[w]]] = "active"
      PROVE  ArchivedAgentStopped'
  <2>1. pc'[w] = p /\ \A v \in Workers : v # w => pc'[v] = pc[v]
    BY <1>0, <1>5
  <2> QED
    BY <1>5, <2>1, StoppedFrame
<1>6. ASSUME NEW w \in Workers, Gate(w) PROVE ArchivedAgentStopped'
  <2>1. CASE PassGate(w)
    BY <1>5, <2>1 DEF PassGate, Step, Goto
  <2>2. CASE RefuseLostClaim(w) \/ RefuseApproved(w) \/ RefuseDispatched(w)
    BY <1>4, <2>2 DEF RefuseLostClaim, RefuseApproved, RefuseDispatched
  <2> QED
    BY <1>6, <2>1, <2>2 DEF Gate
<1>7. ASSUME NEW w \in Workers, Execute(w) PROVE ArchivedAgentStopped'
  <2>1. UNCHANGED <<wjob, agent, grace>>
    BY <1>7 DEF Execute, AuthorizeAllow, AuthorizeDeny, AuthorizeRaise, RecheckPass, RecheckDeny,
                Inject, InjectRaise, Dispatch, DispatchRefused, DispatchRaise, Finish,
                ImportReturns, ImportRaises, Raise, Step, Return
  <2>2. \E p : /\ pc' = [pc EXCEPT ![w] = p]
               /\ p \in {"inject", "dispatch"} =>
                    pc[w] \in {"inject", "dispatch"} \/ agent[Owner[wjob[w]]] = "active"
    BY <1>7 DEF Execute, AuthorizeAllow, AuthorizeDeny, AuthorizeRaise, RecheckPass, RecheckDeny,
                Inject, InjectRaise, Dispatch, DispatchRefused, DispatchRaise, Finish,
                ImportReturns, ImportRaises, Raise, Step, Return, Goto
  <2> QED
    BY <1>5, <2>1, <2>2
<1>8. ASSUME NEW w \in Workers, Record(w) \/ Fault(w) PROVE ArchivedAgentStopped'
  <2>1. UNCHANGED <<agent, grace>> /\ (Release(w) \/ UNCHANGED <<pc, wjob>>)
    BY <1>8 DEF Record, Fault, Complete, HandleFailure, FailClaimed, Crash, OutcomeUnrecorded,
                InjectInDoubt, CompleteFails, CompleteInDoubt
  <2> QED
    BY <1>1, <1>4, <2>1
<1>9. CASE UNCHANGED vars \/ File \/ Review \/ Sweep \/ Time
  <2>1. UNCHANGED <<pc, wjob, agent, grace>>
    BY <1>9 DEF vars, File, FileHold, Enqueue, Review, Approve, Deny, Withdraw, Cancel, Sweep,
                SweepApprovals, RetentionSweep, Time, LeaseLapse, BackoffLapse, ApprovalLapse
  <2> QED
    BY <1>1, <2>1
<1> QED
  BY <1>2, <1>3, <1>6, <1>7, <1>8, <1>9 DEF Next, Work

\* A run touches a credential or the wire for an archived or deleted agent only if it had
\* passed _recheck_actor before the archive.
THEOREM ArchiveStopsRuns == Spec => []ArchivedAgentStopped
<1>1. Init => ArchivedAgentStopped
  BY DEF Init, ArchivedAgentStopped
<1>2. Inv /\ ArchivedAgentStopped /\ [Next]_vars => ArchivedAgentStopped'
  BY StoppedNext
<1> QED
  BY <1>1, <1>2, Invariance, PTL DEF Spec

=============================================================================
