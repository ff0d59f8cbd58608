SPECIFICATION FairSpec
CONSTANTS
  Jobs = {j1, j2, j3}
  Sessions = {s1, f1}
  Foreign = {f1}
  NoJob = NoJob
  Concurrency = 2
  MaxFaults = 1
INVARIANTS DrainedIsQuiet NoWakeupLost
PROPERTY ClaimableJobsStart
CHECK_DEADLOCK FALSE
