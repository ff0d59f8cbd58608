SPECIFICATION Spec
CONSTANTS
  NumJobs = 2
  Workers = {w1}
  Agents = {a1}
  Owner <- OneOwner
  Fingerprint <- Distinct
  Trace <- Same
  MaxAttempts = 2
  MaxPending = 1
  CompletionRetries = 1
  MaxFaults = 1
  MayOverstay = FALSE
INVARIANTS RefusedOnlyAfterOwnRun
CHECK_DEADLOCK FALSE
