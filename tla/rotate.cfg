SPECIFICATION Spec
CONSTANTS
  t1 = t1
  t2 = t2
  t3 = t3
  t4 = t4
  d1 = d1
  d2 = d2
  u1 = u1
  q1 = q1
  q2 = q2
  q3 = q3
  None = None
  Token <- ThreeTokens
  User <- OneUser
  Device <- TwoDevices
  Req <- TwoRequests
  Stores = {"prisma", "memory"}
  MaxMishaps = 1
SYMMETRY Symmetry
INVARIANTS
  OneLivePerFamily
  NoFalseAlarm
  LossHasReason
PROPERTIES
  ExtinctStaysExtinct
  RotationImplemented
