SPECIFICATION FairSpec
CONSTANTS
  c1 = c1
  c2 = c2
  Courses <- TwoCourses
  Offered <- OneOffered
  Keep = 2
  MaxHops = 2
  MaxWindow = 3
  MaxFaults = 1
  HeaderSafe = {FALSE}
INVARIANTS
  HitIsReturned
CHECK_DEADLOCK FALSE
