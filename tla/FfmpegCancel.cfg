\* Which task a cancel stops, for a user who waits for MSG_FINISH.
SPECIFICATION FairSpec
CONSTANTS
  MaxTasks = 2
  MaxReports = 1
  Client = {"cancels"}
CHECK_DEADLOCK FALSE
PROPERTY CancelHitsTheRunningTask
