SPECIFICATION NoOverlapSpec
CONSTANTS
  p1 = p1
  p2 = p2
  t1 = t1
  t2 = t2
  c1 = c1
  c2 = c2
  c3 = c3
  r1 = r1
  r2 = r2
  Null = Null
  Undefined = Undefined
  Users = {u1}
  Properties = {p1, p2}
  Tenants = {t1}
  Contracts = {c1, c2, c3}
  Requests = {r1, r2}
  Codes = {k1, k2, k3}
  CreateDtos <- TwoProperties
  PatchDtos <- EndingPatches
  PropertyPatches <- NoPatches
INVARIANTS AtMostOneActive
PROPERTIES ImplementsTenancies TenanciesStayOver
CHECK_DEADLOCK FALSE
SYMMETRY MoreRows
