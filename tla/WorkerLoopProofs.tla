-------------------------- MODULE WorkerLoopProofs --------------------------
(***************************************************************************)
(* A drain() that returns True leaves a worker without work, and no        *)
(* wake-up is lost, for every number of jobs, sessions, slots and          *)
(* failures.                                                               *)
(***************************************************************************)
EXTENDS WorkerLoop, TLAPS

\* The part of the state the argument is about.
TypeOK ==
    /\ job \in [Jobs -> {"new", "inserted", "announced", "due", "claimed", "running", "later", "done"}]
    /\ pc \in {"start", "sweep", "claim", "claimed", "wait", "backoff", "closing", "aborting", "ended"}
    /\ got \in Jobs \cup {NoJob}
    /\ draining \in BOOLEAN /\ claiming \in BOOLEAN /\ idle \in BOOLEAN /\ released \in BOOLEAN
    /\ inFlight \in SUBSET Jobs
    /\ drain \in {"no", "waiting", "idle", "late"}

\* A running job is tracked, and a claimed one is the one the claim is returning.
Tracked ==
    /\ claiming <=> pc \in {"claim", "claimed"}
    /\ \A j \in Jobs : job[j] = "running" => j \in inFlight
    /\ \A j \in Jobs : job[j] = "claimed" => pc = "claimed" /\ got = j

NoWork == inFlight = {} /\ ~claiming

\* Once drain() has begun nothing is claimed any more, so that the release of its
\* wait, which outlives the state of _idle it was given in, stays true.
Quiet ==
    /\ drain # "no" => draining
    /\ idle => NoWork
    /\ released => drain # "no" /\ NoWork
    /\ drain = "idle" => NoWork

DrainInv == TypeOK /\ Tracked /\ Quiet

LEMMA InitDrainInv == Init => DrainInv
BY DEF Init, DrainInv, TypeOK, Tracked, Quiet, NoWork

\* The steps of the enqueuers.
LEMMA QueueStep ==
    ASSUME DrainInv,
           \/ \E s \in Sessions : (\E j \in Jobs : Enqueue(s, j)) \/ Commit(s) \/ AfterCommit(s) \/ Rollback(s)
           \/ Notified
    PROVE  DrainInv'
<1>1. ASSUME NEW s \in Sessions, NEW j \in Jobs, Enqueue(s, j) PROVE DrainInv'
  BY <1>1 DEF DrainInv, TypeOK, Tracked, Quiet, NoWork, Enqueue, loopVars, flagVars, idleVars
<1>2. ASSUME NEW s \in Sessions, Commit(s) PROVE DrainInv'
  BY <1>2 DEF DrainInv, TypeOK, Tracked, Quiet, NoWork, Commit, loopVars, flagVars, idleVars
<1>3. ASSUME NEW s \in Sessions, AfterCommit(s) PROVE DrainInv'
  BY <1>3 DEF DrainInv, TypeOK, Tracked, Quiet, NoWork, AfterCommit, loopVars, flagVars, idleVars
<1>4. ASSUME NEW s \in Sessions, Rollback(s) PROVE DrainInv'
  BY <1>4 DEF DrainInv, TypeOK, Tracked, Quiet, NoWork, Rollback, loopVars, flagVars, idleVars
<1>5. CASE Notified
  BY <1>5 DEF DrainInv, TypeOK, Tracked, Quiet, NoWork, Notified, loopVars, flagVars, idleVars
<1> QED
  BY <1>1, <1>2, <1>3, <1>4, <1>5

\* The steps of run().
LEMMA LoopStep ==
    ASSUME DrainInv, Loop \/ SweepRaises \/ ClaimRaises
    PROVE  DrainInv'
<1> USE DEF DrainInv, TypeOK, Tracked, Quiet, NoWork, flagVars, idleVars
<1>1. CASE Start
  BY <1>1 DEF Start
<1>2. CASE SweepEnds
  <2>1. CASE MayClaim(inFlight)
    <3>1. drain = "no" /\ ~released /\ ~draining
      BY <2>1 DEF MayClaim
    <3> QED
      BY <1>2, <2>1, <3>1 DEF SweepEnds
  <2>2. CASE ~MayClaim(inFlight)
    BY <1>2, <2>2 DEF SweepEnds
  <2> QED
    BY <2>1, <2>2
<1>3. CASE ClaimReads
  BY <1>3 DEF ClaimReads, Claimable
<1>4. CASE ClaimReturnsNone
  BY <1>4, LoopAssumption DEF ClaimReturnsNone, MarkIdleIfQuiet
<1>5. CASE ClaimReturnsJob
  <2>1. got \in Jobs /\ claiming /\ ~released /\ drain # "idle" /\ ~idle
    BY <1>5 DEF ClaimReturnsJob
  <2>2. CASE MayClaim(inFlight')
    BY <1>5, <2>1, <2>2 DEF ClaimReturnsJob, LeaveClaim
  <2>3. CASE ~MayClaim(inFlight')
    BY <1>5, <2>1, <2>3 DEF ClaimReturnsJob, LeaveClaim, Turn
  <2> QED
    BY <2>2, <2>3
<1>6. CASE Waited
  BY <1>6 DEF Waited, Turn
<1>7. CASE BackoffEnds
  BY <1>7 DEF BackoffEnds, Turn
<1>8. CASE Ends
  BY <1>8 DEF Ends
<1>9. CASE SweepRaises
  BY <1>9 DEF SweepRaises
<1>10. CASE ClaimRaises
  BY <1>10 DEF ClaimRaises, AfterError, MarkIdleIfQuiet
<1> QED
  BY <1>1, <1>2, <1>3, <1>4, <1>5, <1>6, <1>7, <1>8, <1>9, <1>10 DEF Loop

\* The steps of the jobs' tasks.
LEMMA JobStep ==
    ASSUME DrainInv, NEW j \in Jobs, JobEnds(j) \/ OnJobDone(j) \/ BecomesDue(j)
    PROVE  DrainInv'
<1> USE DEF DrainInv, TypeOK, Tracked, Quiet, NoWork, loopVars, flagVars, idleVars
<1>1. CASE JobEnds(j)
  BY <1>1 DEF JobEnds
<1>2. CASE OnJobDone(j)
  BY <1>2 DEF OnJobDone, MarkIdleIfQuiet
<1>3. CASE BecomesDue(j)
  BY <1>3 DEF BecomesDue
<1> QED
  BY <1>1, <1>2, <1>3

\* The steps of the shutdown.
LEMMA ShutdownStep ==
    ASSUME DrainInv, Drain \/ DrainIdle \/ DrainTimeout \/ Cancel
    PROVE  DrainInv'
<1> USE DEF DrainInv, TypeOK, Tracked, Quiet, NoWork, loopVars, flagVars, idleVars
<1>1. CASE Drain
  BY <1>1 DEF Drain
<1>2. CASE DrainIdle
  BY <1>2 DEF DrainIdle, DrainReturns
<1>3. CASE DrainTimeout
  BY <1>3 DEF DrainTimeout, DrainReturns
<1>4. CASE Cancel
  BY <1>4 DEF Cancel, MarkIdleIfQuiet
<1> QED
  BY <1>1, <1>2, <1>3, <1>4

LEMMA StutterStep ==
    ASSUME DrainInv, UNCHANGED vars
    PROVE  DrainInv'
BY DEF DrainInv, TypeOK, Tracked, Quiet, NoWork, vars, loopVars, flagVars, idleVars

\* The inductive invariant holds in every reachable state of the loop.
THEOREM DrainInvariant == Spec => []DrainInv
<1>1. DrainInv /\ [Next]_vars => DrainInv'
  BY QueueStep, LoopStep, JobStep, ShutdownStep, StutterStep DEF Next
<1> QED
  BY <1>1, InitDrainInv, PTL DEF Spec

\* drain() returns True only when no claim is under way, no claimed job waits to
\* be started and no job runs, and none starts afterwards (WorkerLoop.drain).
THEOREM DrainsAreQuiet == Spec => []DrainedIsQuiet
<1>1. DrainInv => DrainedIsQuiet
  BY DEF DrainInv, TypeOK, Tracked, Quiet, NoWork, DrainedIsQuiet
<1> QED
  BY <1>1, DrainInvariant, PTL

-----------------------------------------------------------------------------
(* Wake-ups.                                                               *)

\* The flags of the wake-up and of the loop.
FlagsOK == {wake, signal, running, draining, failed} \subseteq BOOLEAN

NoneAnnounced == \A j \in Jobs : job[j] # "announced"

\* A claim that found the queue empty has missed nothing that is not on its way
\* to _wake: the event is cleared before the poll and never after it.
EmptyClaimIsTold ==
    pc = "claimed" /\ got = NoJob /\ ~wake /\ ~signal => NoneAnnounced

WakeInv == FlagsOK /\ EmptyClaimIsTold /\ NoWakeupLost

LEMMA InitWakeInv == Init => WakeInv
BY DEF Init, WakeInv, FlagsOK, EmptyClaimIsTold, NoneAnnounced, NoWakeupLost

\* The listener announces a job only together with its signal; a commit and a
\* rollback announce none, and a delivered signal is a set _wake.
LEMMA QueueStepWakes ==
    ASSUME TypeOK, WakeInv,
           \/ \E s \in Sessions : (\E j \in Jobs : Enqueue(s, j)) \/ Commit(s) \/ AfterCommit(s) \/ Rollback(s)
           \/ Notified
    PROVE  WakeInv'
<1> USE DEF TypeOK, WakeInv, FlagsOK, EmptyClaimIsTold, NoneAnnounced, NoWakeupLost, loopVars, flagVars,
            idleVars
<1>1. ASSUME NEW s \in Sessions, NEW j \in Jobs, Enqueue(s, j) PROVE WakeInv'
  BY <1>1 DEF Enqueue
<1>2. ASSUME NEW s \in Sessions, Commit(s) PROVE WakeInv'
  BY <1>2 DEF Commit
<1>3. ASSUME NEW s \in Sessions, AfterCommit(s) PROVE WakeInv'
  <2>1. CASE Subscribed
    BY <1>3, <2>1 DEF AfterCommit
  <2>2. CASE ~Subscribed
    BY <1>3, <2>2 DEF AfterCommit
  <2> QED
    BY <2>1, <2>2
<1>4. ASSUME NEW s \in Sessions, Rollback(s) PROVE WakeInv'
  BY <1>4 DEF Rollback
<1>5. CASE Notified
  BY <1>5 DEF Notified
<1> QED
  BY <1>1, <1>2, <1>3, <1>4, <1>5

\* The loop comes to its wait with no free slot, with an empty claim, or after a
\* poll that failed.
LEMMA LoopStepWakes ==
    ASSUME TypeOK, WakeInv, Loop \/ SweepRaises \/ ClaimRaises
    PROVE  WakeInv'
<1> USE DEF TypeOK, WakeInv, FlagsOK, EmptyClaimIsTold, NoneAnnounced, NoWakeupLost, queueVars, flagVars,
            idleVars
<1>1. CASE Start
  BY <1>1 DEF Start
<1>2. CASE SweepEnds
  <2>1. CASE MayClaim(inFlight)
    BY <1>2, <2>1 DEF SweepEnds
  <2>2. CASE ~MayClaim(inFlight)
    BY <1>2, <2>2 DEF SweepEnds, MayClaim
  <2> QED
    BY <2>1, <2>2
<1>3. CASE ClaimReads
  <2>1. CASE Claimable = {} /\ UNCHANGED job
    BY <1>3, <2>1 DEF ClaimReads, Claimable
  <2>2. CASE \E j \in Claimable : got' = j /\ job' = [job EXCEPT ![j] = "claimed"]
    BY <1>3, <2>2, LoopAssumption DEF ClaimReads, Claimable
  <2> QED
    BY <1>3, <2>1, <2>2 DEF ClaimReads
<1>4. CASE ClaimReturnsNone
  BY <1>4 DEF ClaimReturnsNone
<1>5. CASE ClaimReturnsJob
  BY <1>5 DEF ClaimReturnsJob, Turn
<1>6. CASE Waited
  BY <1>6 DEF Waited, Turn
<1>7. CASE BackoffEnds
  BY <1>7 DEF BackoffEnds, Turn
<1>8. CASE Ends
  BY <1>8 DEF Ends
<1>9. CASE SweepRaises
  BY <1>9 DEF SweepRaises
<1>10. CASE ClaimRaises
  BY <1>10 DEF ClaimRaises, AfterError
<1> QED
  BY <1>1, <1>2, <1>3, <1>4, <1>5, <1>6, <1>7, <1>8, <1>9, <1>10 DEF Loop

\* A slot is freed only together with a set _wake.
LEMMA OtherStepWakes ==
    ASSUME TypeOK, WakeInv,
           \/ \E j \in Jobs : JobEnds(j) \/ OnJobDone(j) \/ BecomesDue(j)
           \/ Drain \/ DrainIdle \/ DrainTimeout \/ Cancel
           \/ UNCHANGED vars
    PROVE  WakeInv'
<1> USE DEF TypeOK, WakeInv, FlagsOK, EmptyClaimIsTold, NoneAnnounced, NoWakeupLost, queueVars, loopVars,
            flagVars, idleVars
<1>1. ASSUME NEW j \in Jobs, JobEnds(j) PROVE WakeInv'
  BY <1>1 DEF JobEnds
<1>2. ASSUME NEW j \in Jobs, OnJobDone(j) PROVE WakeInv'
  BY <1>2 DEF OnJobDone
<1>3. ASSUME NEW j \in Jobs, BecomesDue(j) PROVE WakeInv'
  BY <1>3 DEF BecomesDue
<1>4. CASE Drain
  BY <1>4 DEF Drain
<1>5. CASE DrainIdle \/ DrainTimeout
  BY <1>5 DEF DrainIdle, DrainTimeout, DrainReturns
<1>6. CASE Cancel
  BY <1>6 DEF Cancel
<1>7. CASE UNCHANGED vars
  BY <1>7 DEF vars
<1> QED
  BY <1>1, <1>2, <1>3, <1>4, <1>5, <1>6, <1>7

\* A loop that goes to sleep with a free slot after a poll that did not fail was
\* told of every job it leaves behind, and will wake for it: _wake is cleared
\* before the poll, so an enqueue during the poll is heard (WorkerLoop.run).
THEOREM WakeupsAreHeard == Spec => []NoWakeupLost
<1>1. DrainInv /\ WakeInv /\ [Next]_vars => WakeInv'
  BY QueueStepWakes, LoopStepWakes, OtherStepWakes DEF Next, DrainInv
<1>2. WakeInv => NoWakeupLost
  BY DEF WakeInv
<1> QED
  BY <1>1, <1>2, InitWakeInv, DrainInvariant, PTL DEF Spec

=============================================================================
