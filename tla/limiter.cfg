SPECIFICATION FairSpec
CONSTANTS
  q1 = q1
  q2 = q2
  q3 = q3
  Req <- ThreeRequests
  Backends = {"redis", "memory"}
  Limit = 3
  Window = 3
  MaxMishaps = 2
INVARIANTS
  AtMostTwiceTheLimit
PROPERTIES
  FixedWindowImplemented
  WindowEnds
