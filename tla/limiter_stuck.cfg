SPECIFICATION Spec
CONSTANTS
  q1 = q1
  q2 = q2
  q3 = q3
  Req <- ThreeRequests
  Backends = {"redis"}
  Limit = 3
  Window = 3
  MaxMishaps = 1
INVARIANTS
  CounterExpires
