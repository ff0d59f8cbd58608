SPECIFICATION FairSpec
CONSTANTS
  NumJobs = 1
  Workers = {w1, w2}
  Agents = {a1}
  Owner <- OneOwner
  Fingerprint <- Distinct
  Trace <- Distinct
  MaxAttempts = 2
  MaxPending = 1
  CompletionRetries = 1
  MaxFaults = 3
  MayOverstay = TRUE
INVARIANT ApprovedRunsOnce
PROPERTIES SettledStaysSettled ImplementsGate JobsSettle HoldsSettle
CHECK_DEADLOCK FALSE
