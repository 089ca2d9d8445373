SPECIFICATION Spec
CONSTANTS
  early = early
  late = late
  None = None
  Timetable <- Classes
  Texts <- Codes
  Times <- MondayTimes
  Zones = {540}
  Stored <- Fresh
  CodeConfigured = TRUE
  HasCreds = TRUE
  Camera = {c1, c2}
  MaxPreviews = 2
  MaxRequests = 3
PROPERTIES
  OfferedInWindow
CHECK_DEADLOCK FALSE
