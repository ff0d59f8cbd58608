SPECIFICATION Spec
CONSTANTS
  admin = admin
  member = member
  Users = {admin, member}
  Admins = {admin}
  Self = self
  NoOwner = none
  Clients = {k1, k2}
  Creds = {c1}
  CredOwner <- OfMember
  NumGrants = 2
  Requests = {r1, r2}
SYMMETRY RequestSymmetry
INVARIANTS GrantConsenterIsOwner OneActiveGrantPerPair LiveGrantsOnLiveAgents
PROPERTY SerialArchiveIsTerminal
CHECK_DEADLOCK FALSE
