SPECIFICATION Spec
CONSTANTS
  a1 = a1
  s1 = s1
  x1 = x1
  n1 = n1
  p1 = p1
  p2 = p2
  t1 = t1
  t2 = t2
  r1 = r1
  r2 = r2
  Null = Null
  Undefined = Undefined
  Users = {a1, s1, x1, n1}
  Properties = {p1, p2}
  Tenants = {t1, t2}
  Tickets = {k1}
  Requests = {r1, r2}
  InitialUsers <- MCUsers
  PropertyOwner <- MCPropertyOwner
  TenantOwner <- MCTenantOwner
  NewRoles <- MCNewRoles
  CreateDtos <- MCCreateDtos
  PatchDtos <- MCPatchDtos
  RoleDtos <- MCRoleDtos
  MaxArrivals = 4
INVARIANTS TicketsTypeOK ResolvedHasDate TicketAccountAgrees NoticesAreTrue ViewsAgree
PROPERTIES SettledStaysClosed
SYMMETRY RequestSymmetry
CHECK_DEADLOCK FALSE
