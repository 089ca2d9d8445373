SPECIFICATION Spec
CONSTANTS
  r1 = r1
  r2 = r2
  w1 = w1
  w2 = w2
  None = None
  Block <- MCBlock
  SameClass <- MCBlock
  RoomOf <- MCRoomOf
  Window <- MCWindow
  LeadTick <- MCLeadTick
  Row <- OneRow
  Slot <- TwoSlots
  MaxClock = 1
  DryRuns = {FALSE}
  LockLoss = FALSE
  MaxMishaps = 0
  Modes = {"confirm"}
  PageReflects = FALSE
  PromptRuns = FALSE
SYMMETRY SlotSymmetry
INVARIANTS
  FinishedRunHasOutcome
