SPECIFICATION Spec
CONSTANTS
  u1 = u1
  u2 = u2
  u3 = u3
  r1 = r1
  r2 = r2
  r3 = r3
  root = root
  admin = admin
  free = free
  Users = {u1, u2, u3}
  Registered = {u1, u2}
  Requests = {r1, r2, r3}
  Roots = {root, admin}
  AdminKeys = {admin}
  Plans = {free}
  Invitable = {"owner", "admin"}
  Assignable = {"active", "cancelled"}
  MaxMembers <- MCMaxMembers
  Prefix <- MCPrefix
  None = None
SYMMETRY Symmetry
CHECK_DEADLOCK FALSE
INVARIANTS
  WorkspacesUsable
  TenantsSeparate
PROPERTIES
  KeysKept
