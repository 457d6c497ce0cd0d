CONSTANTS
  Members = {m1, m2, m3}
  Requests = {r1, r2}
  Workspace = Workspace
  Nobody = Nobody
  Bindable = {"admin"}
  Ops = {"role", "status", "transfer", "archive", "unarchive", "assign"}
SPECIFICATION BatchSpec
INVARIANTS ActiveOwnerRemains
PROPERTIES ImplementsOwnership RequestsEnd
CHECK_DEADLOCK FALSE
