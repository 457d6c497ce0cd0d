CONSTANTS
  Undefined = Undefined
  Users = {ann, bob, eve}
  FirstAdmin = ann
  Slugs = {s1}
  Links = {l1, l2}
  Policies = {p1, p2}
  DefaultPolicy = p1
  Notices = {n1, n2}
  RoleIds = {member_role, x1, x2}
  RoleKeys = {k1}
  BuiltIns = {member_role}
  Capabilities = {read, write, unlisted}
  Catalogue = {read, write}
  Staff = {zoe}
  Messages = {a1, a2}
  Names = {d1, d2}
  FirstName = d1
  Places = {w1, w2}
  Requests = {r1, r2}
  Nobody = Nobody
  MaxRequests = 4
  OpGroups = {{"add", "suspend", "activate"}, {"tenant", "open", "workspace", "suspend"}, {"settings"}, {"publish", "withdraw"},
              {"create_role", "update_role", "delete_role", "list_roles"}, {"create_role", "delete_role", "assign"}, {"announce", "retract"}, {"profile"}}
SPECIFICATION Spec
SYMMETRY Symmetry
INVARIANTS AdministratorRemains PolicyIsTheStoredOne AnnouncementsAreShown UsedLinkOwnsItsTenant RolesAreListedAsGranted RolesComeFromOneRequest OneNameEverywhere
PROPERTY ActivationLinksAreTokens
CHECK_DEADLOCK FALSE
