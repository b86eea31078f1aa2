SPECIFICATION PatientSpec
CONSTANTS
  u1 = u1
  u2 = u2
  r1 = r1
  r2 = r2
  Null = Null
  Users = {u1, u2}
  Tokens = {k1, k2, k3}
  Requests = {r1, r2}
  MaxExpired = 1
INVARIANTS SessionsTypeOK UnpresentedLives OneSuccessor OneKeyPerSession
PROPERTIES LogoutSettles ImplementsRotation
SYMMETRY SessionsSymmetry
