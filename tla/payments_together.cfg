SPECIFICATION PaySpec
CONSTANTS
  p1 = p1
  p2 = p2
  t1 = t1
  t2 = t2
  c1 = c1
  c2 = c2
  m1 = m1
  m2 = m2
  y1 = y1
  y2 = y2
  s1 = s1
  s2 = s2
  Null = Null
  Undefined = Undefined
  Users = {u1}
  Properties = {p1}
  Tenants = {t1, t2}
  Contracts = {c1}
  Requests = {r1}
  Codes = {k1}
  CreateDtos <- LeasePosts
  PatchDtos <- LeasePatches
  PropertyPatches <- NoPropertyPatches
  Payments = {y1, y2}
  Periods = {m1}
  PayRequests = {s1, s2}
  CreatePaymentDtos <- TogetherPosts
  PaymentPatches <- TogetherPatches
INVARIANTS PayTypeOK CopiesAgree PaidIsComplete
PROPERTIES CancelledPaymentsSettle GivenAmountsSettle
CHECK_DEADLOCK FALSE
SYMMETRY PaySymmetry
