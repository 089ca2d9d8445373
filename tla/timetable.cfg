SPECIFICATION FairSpec
CONSTANTS
  early = early
  late = late
  algebra = algebra
  optics = optics
  lab = lab
  scrape = scrape
  cit = cit
  NoCourse = NoCourse
  NoRow = NoRow
  Slots <- TwoSlots
  Editable <- OneEditable
  Courses <- ThreeCourses
  Known <- TwoCourses
  Offered <- BothOrLab
  Runs <- BothCallers
  Ids <- FewIds
  MaxMoves = 2
INVARIANTS
  LinkIsEarned
PROPERTIES
  ManualRowKept
  OnlyVanishedRemoved
  PortalFollowed
  VanishedRemoved
CHECK_DEADLOCK FALSE
