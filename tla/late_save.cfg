SPECIFICATION Spec
CONSTANTS
  t1 = t1
  t2 = t2
  t3 = t3
  t4 = t4
  d1 = d1
  d2 = d2
  u1 = u1
  q1 = q1
  q2 = q2
  q3 = q3
  None = None
  Token <- FourTokens
  User <- OneUser
  Device <- OneDevice
  Req <- TwoRequests
  Stores = {"prisma"}
  MaxMishaps = 0
SYMMETRY Symmetry
INVARIANTS
  RevokedFamilyIsGone
