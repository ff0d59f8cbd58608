SPECIFICATION Spec
CONSTANTS
  Edits = {e1, e2}
  NoEdit = NoEdit
  Confirms = {c1, c2}
  Rebases = {r1}
  Landings = {l1}
  MaxRev = 3
  MaxWrites = 2
  MaxGrants = 2
SYMMETRY Symmetry
CHECK_DEADLOCK FALSE
PROPERTY LandingReplacesReviewed
