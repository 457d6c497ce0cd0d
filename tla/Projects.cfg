CONSTANTS
  People = {ann, bob}
  Owner = ann
  Projects = {j1, j2}
  FirstProject = j1
  Rooms = {x1, x2}
  Documents = {d1}
  Requests = {r1, r2}
  Nobody = Nobody
  MaxRequests = 4
  OpGroups = {{"project_member", "room", "room_member", "document", "snapshot"},
              {"project", "room", "snapshot"}, {"project", "project_member", "document", "update"}}
SPECIFICATION Spec
SYMMETRY Symmetry
INVARIANTS RoomsStayInTheirProject SnapshotIsExact
CHECK_DEADLOCK FALSE
