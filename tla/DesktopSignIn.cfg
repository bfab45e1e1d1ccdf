\* Two states, two callbacks, one change in the directory, the account made once.
SPECIFICATION FairSpec
CONSTANTS
  Slots = {s1, s2}
  Requests = {r1, r2}
  TenantMapping <- MCMapping
  RoleMapping <- MCRoles
  RolePriority <- MCPriority
  DefaultRole = "null"
  Missing = "missing"
  Odd = "odd"
  Claims <- MCClaims
  DefaultTenant = "t0"
  MaxMoves = 1
  MaxAccounts = 1
INVARIANTS OneBearerPerState OutcomeMeetsTable RoleTraced
PROPERTIES RoleConverges
