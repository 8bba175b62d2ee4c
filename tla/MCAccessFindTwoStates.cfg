SPECIFICATION GateSpec
CONSTANTS
  a1 = a1
  a2 = a2
  u1 = u1
  c1 = c1
  s1 = s1
  i1 = i1
  customer = customer
  reader = reader
  Users = {u1}
  Roles = {customer, reader}
  ConfinedRoles = {customer}
  RoleGives <- SomeRoleGives
  Clients = {c1}
  Servers = {s1}
  Incidents = {i1}
  Ranking <- SomeRanking
  Grantable <- OfBoth
  Holdings <- SomeHoldings
  Administrators = {a1, a2}
  Limit = 1
  Candidates = 2
  MaxChanges = 1
  None = None
  Wild = Wild
INVARIANTS OneState
CHECK_DEADLOCK FALSE
