SPECIFICATION FairSpec
CONSTANTS
  exam = exam
  room = room
  report = report
  r1 = r1
  r2 = r2
  job1 = job1
  phone = phone
  laptop = laptop
  Notices <- TwoNotices
  Doublable <- OneDoublable
  Assignments <- OneAssignment
  Runs <- TwoRuns
  NotifyJobs <- OneJob
  Endpoints <- TwoEndpoints
  Mortal <- OneMortal
  MaxMoves = 1
INVARIANTS
  NoticeQueuedOnce
  SavedIsQueued
  DeliveredAsQueued
PROPERTIES
  PublishedIsSaved
  LiveSubscriptionKept
  AllDevicesServed
