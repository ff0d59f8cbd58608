SPECIFICATION Spec
CONSTANTS
  NumJobs = 1
  Workers = {w1}
  Agents = {a1}
  Owner <- OneOwner
  Fingerprint <- Distinct
  Trace <- Distinct
  MaxAttempts = 2
  MaxPending = 1
  CompletionRetries = 1
  MaxFaults = 2
  MayOverstay = FALSE
INVARIANTS AttemptsWithinBudget
CHECK_DEADLOCK FALSE
