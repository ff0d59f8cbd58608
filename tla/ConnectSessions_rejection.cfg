SPECIFICATION Spec
CONSTANTS
  a1 = a1
  a2 = a2
  a3 = a3
  g1 = g1
  g2 = g2
  Asks = {a1, a2, a3}
  Agents = {g1, g2}
  NoAgent = NoAgent
  Existing = Existing
  Confirms = {c1, c2}
  Sweeps = {s1, s2}
  Landings = {l1}
  Mixes <- Instances
  Faulty = {c1, c2}
  MaxRev = 2
  MaxPerAgent = 1
  MaxPerOwner = 2
PROPERTY RejectionHolds
CHECK_DEADLOCK FALSE
