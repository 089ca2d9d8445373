SPECIFICATION FairSpec
CONSTANTS
  early = early
  late = late
  None = None
  Timetable <- Classes
  Texts <- Codes
  Times <- MondayTimes
  Zones = {540, 570}
  Stored <- Fresh
  CodeConfigured = TRUE
  HasCreds = TRUE
  Camera = {c1, c2}
  MaxPreviews = 2
  MaxRequests = 2
INVARIANTS
  OneCamera
  OneRequestPerPreview
  AcceptedIsQueued
  MarkedIsRecorded
  ShownModeIsStored
PROPERTIES
  SubmittingIsAnswered
CHECK_DEADLOCK FALSE
