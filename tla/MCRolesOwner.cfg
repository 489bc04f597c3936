SPECIFICATION RolesSpec
CONSTANTS
  User = {u1, u2}
  Change = {r1, r2}
PROPERTIES
  OwnerKeepsRole
