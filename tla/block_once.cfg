SPECIFICATION Spec
CONSTANTS
  r1 = r1
  r2 = r2
  w1 = w1
  w2 = w2
  None = None
  Block <- MCBlock
  SameClass <- MCBlock
  RoomOf <- MCRoomOf
  Window <- MCWindow
  LeadTick <- MCLeadTick
  Row <- TwoRows
  Slot <- TwoSlots
  MaxClock = 2
  DryRuns = {FALSE}
  LockLoss = FALSE
  MaxMishaps = 1
  Modes = {"auto"}
  PageReflects = FALSE
  PromptRuns = TRUE
SYMMETRY SlotSymmetry
PROPERTIES
  NoSubmissionAfterSuccess
