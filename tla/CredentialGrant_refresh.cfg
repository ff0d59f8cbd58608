SPECIFICATION FairSpec
CONSTANTS
  Requests = {r1, r2}
  Connects = {c1}
  Origins = {o1, o2}
  NoOne = NoOne
  MaxIssued = 4
  MaxMoves = 1
  MaxFaults = 1
INVARIANTS RefreshStaysHome ReplaysOnlyAfterLoss AnswerExtendsItsGrant
PROPERTY CallsEnd
CHECK_DEADLOCK FALSE
