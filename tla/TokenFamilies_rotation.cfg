SPECIFICATION Spec
CONSTANTS
  NumPairs = 3
  Codes = {code1}
  Requests = {r1, r2}
SYMMETRY RequestSymmetry
INVARIANTS OneLiveRefresh CodeMintsOnce RevokedGrantResolvesNothing SerialFamilyIsDead
CHECK_DEADLOCK FALSE
