\* Tasks that overlap and are cancelled.
SPECIFICATION FairSpec
CONSTANTS
  MaxTasks = 2
  MaxReports = 1
  Client = {"overlaps", "cancels"}
PROPERTIES ContractHolds ProgressIsInTime SuccessNamesItsOutput TempsAreKept TasksFinish
