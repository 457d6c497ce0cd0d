CONSTANTS
  People = {ann, bob}
  Founder = ann
  Invitations = {i1, i2}
  Departments = {d1, d2}
  FirstDepartments = {d1}
  Requests = {r1, r2}
  Nobody = Nobody
  MaxRequests = 4
  OpGroups = {{"invite", "accept", "organization", "batch"}, {"save"}, {"invite", "accept", "role", "transfer", "assign"}}
SPECIFICATION Spec
SYMMETRY Symmetry
INVARIANTS CirclesNeedAnOverlap MembersWereInvited
PROPERTIES AcceptanceChangesMemberOnce ImplementsOneTimeToken
CHECK_DEADLOCK FALSE
