SPECIFICATION Spec
CONSTANTS
  admin = admin
  member = member
  Users = {admin, member}
  Admins = {admin}
  Self = self
  NoOwner = none
  Clients = {k1}
  Creds = {c1}
  CredOwner <- OfMember
  NumGrants = 1
  Requests = {r1, r2}
SYMMETRY RequestSymmetry
INVARIANT ActiveBindingsOfOwner
CHECK_DEADLOCK FALSE
