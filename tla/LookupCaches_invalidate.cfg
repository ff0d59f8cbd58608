SPECIFICATION Spec
CONSTANTS
  Callers = {c1, c2, c3}
  Keys = {k1, k2}
  Nobody = Nobody
  MaxEntries = 1
  MaxInFlight = 1
  TTL = 1
  FailureTTL = 1
  MaxTime = 1
  Volatile = {k1}
  MaxVersions = 2
INVARIANT InvalidationIsImmediate
CHECK_DEADLOCK FALSE
