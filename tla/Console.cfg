CONSTANTS
  None = None
  Views = {"members", "member", "quota", "model", "tenant", "role", "department", "tenants", "models", "tenant_members", "audit", "settings"}
  MaxChanges <- FewChanges
  Members = {me, m1}
  Self = me
  Departments = {d0, d1}
  Shown = d0
  RoleChoices = {"owner", "member"}
  PatchIds = {p1, p2}
  WriteIds = {w1, w2}
  LoadIds = {l1, l2}
  Entries = {e1, e2}
  CallIds = {c1, c2}
  Tenants = {t1, t2}
  Queries = {all, text}
  NoQuery = all
  EditIds = {x1, x2}
  Sizes = {1, 2}
  Lifetimes = {2, 3}
  Ages = {1, 2}
  FirstPolicy <- Week
  TripIds = {s1, s2}
  Matches <- SomeMatch
SPECIFICATION Spec
SYMMETRY Symmetry
INVARIANTS RowsAreTheServers EntriesKeepTheirOwn ListAnswersTheControls SavesAreAccepted
PROPERTY ClosedWhenStored
CHECK_DEADLOCK FALSE
