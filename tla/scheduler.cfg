SPECIFICATION Spec
CONSTANTS
  first = first
  second = second
  third = third
  other = other
  ann = ann
  bob = bob
  None = None
  Timetable <- Classes
  QrRooms <- Codes
  HasCreds = {ann}
  Process = {p1, p2}
  Times <- MondayTimes
  MaxEvents = 1
SYMMETRY AlikeProcesses
INVARIANTS
  EveryRowQueued
  OneScanSuffices
  QueuedOnce
CHECK_DEADLOCK FALSE
