SPECIFICATION FairSpec
CONSTANTS
  Days = 2
  Workflows = 2
  MaxNeed = 4
  Quota = 4
  quota_limit = 1
  Timeout = 6
  MaxFaults = 2
  ScriptReportsFailure = TRUE
CHECK_DEADLOCK FALSE

  
PROPERTIES
  EveryWindowIsSynced
