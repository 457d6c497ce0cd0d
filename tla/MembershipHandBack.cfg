CONSTANTS
  Members = {m1, m2}
  Requests = {r1, r2}
  Workspace = Workspace
  Nobody = Nobody
  Bindable = {"admin"}
  Ops = {"transfer"}
SPECIFICATION FoundedSpec
INVARIANTS HandOverToAnyActiveMember
