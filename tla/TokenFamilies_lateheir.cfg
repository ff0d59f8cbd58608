SPECIFICATION Spec
CONSTANTS
  NumPairs = 3
  Codes = {code1}
  Requests = {r1, r2}
SYMMETRY RequestSymmetry
INVARIANTS RevokedFamilyIsDead
CHECK_DEADLOCK FALSE
