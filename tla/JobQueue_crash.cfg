SPECIFICATION Spec
CONSTANTS
  NumJobs = 2
  Workers = {w1, w2}
  Agents = {a1}
  Owner <- OneOwner
  Fingerprint <- Distinct
  Trace <- Distinct
  MaxAttempts = 2
  MaxPending = 1
  CompletionRetries = 1
  MaxFaults = 1
  MayOverstay = FALSE
SYMMETRY WorkerSymmetry
INVARIANTS HoldMatchesJob ExecutionRunsOnce ArchivedAgentStopped
CHECK_DEADLOCK FALSE
