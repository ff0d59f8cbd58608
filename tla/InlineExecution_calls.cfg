SPECIFICATION Spec
CONSTANTS
  Keyed = {r1, r2}
  Streams = {s1, s2}
  Mixes <- Pairs
  Keys = {k1}
  OtherKeys = {k2}
  Prints = {f1, f2}
  NoKey = NoKey
  NoFp = NoFp
  SafePrints = {f2}
  KeyOwner <- OneCaller
  Budget <- TightBudget
  TotalBytes = 12
  MaxTime = 2
  PendingTTL = 1
  DoneTTL = 2
  ClaimSize = 2
  TombstoneSize = 2
  RecordSize = 3
  BodySizes = {0, 2}
  MaxResponseBytes = 3
  MaxAttempts = 2
  Window = 2
  Cooldown = 1
  MinCalls = 1
  RatioNum = 1
  RatioDen = 2
  PersistLimit = 1
SYMMETRY Symmetry
INVARIANTS UnsafeCallSentOnce ReplayFindsBody PermitsConserved ReportSurvivesBacklog
PROPERTY KeyRunsOnceWhileGuarded
CHECK_DEADLOCK FALSE
